---- MODULE Spec2Model ----
(***************************************************************************)
(* The caching layer of the task-tracking service: the key-value store     *)
(* adapter (src/lib/redis.ts), the cache policy layer, session registry,   *)
(* rate limiter and introspection (src/lib/cache.ts), and the request      *)
(* handlers that call them (src/app/api/...).                              *)
(***************************************************************************)
EXTENDS Integers, Sequences, FiniteSets, TLC

VARIABLES
  store,        \* the key-value store's contents: present key -> stored string
  ttl,          \* present key -> remaining seconds to live, NoExpiry if persistent
  reachable,    \* environment: whether the store server answers
  isOpen,       \* redisClient.isOpen
  isConnected,  \* the module flag of redis.ts
  last,         \* the last call completed: its name, arguments and outcome
  tasks,        \* the task table of the data store: id -> row
  users,        \* the user table of the data store: id -> row
  created,      \* number of task rows created so far
  req           \* the requests in flight: slot -> handler, position and locals

app == <<tasks, users, created, req>>
vars == <<store, ttl, reachable, isOpen, isConnected, last, tasks, users, created, req>>

----------------------------------------------------------------------------
(* Identifiers and the model's domains *)

Users == {"u1", "u2"}
Admins == {"adm"}
AllUsers == Users \cup Admins
RoleAtStart(u) == IF u \in Admins THEN "ADMIN" ELSE "USER"
TaskIdSeq == <<"t1", "t2">>          \* the identifiers the task table hands out, in order
TaskIds == {TaskIdSeq[i] : i \in DOMAIN TaskIdSeq}
Slots == {1, 2}
Idle == [h |-> "idle"]
Endpoints == {"e1"}
NumTokens == 2
TokenIds == {ToString(i) : i \in 1..NumTokens}
Jwts == {"jwtA", "jwtB"}

\* the narrow domain of the specification that runs every function under faults
FaultUsers == {"u1"}
FaultTaskIds == {"t1"}
FaultTokenIds == {"1"}

FaultMaxCount == 2   \* its cap in the specification that injects faults
MaxN == 2            \* largest maxRequests argument tried

CACHE_TTL_USER == 3600
CACHE_TTL_TASKS == 300
CACHE_TTL_TASK == 600
CACHE_TTL_SESSION == 604800
RATE_WINDOW == 60
NoExpiry == -1

----------------------------------------------------------------------------
(* JavaScript values *)

Null == [t |-> "null"]
Undefined == [t |-> "undefined"]
Bool(b) == [t |-> "boolean", v |-> b]
DateVal(ms) == [t |-> "Date", ms |-> ms]
IsoStr(ms) == [t |-> "string", iso |-> ms]
Str(s) == [t |-> "string", s |-> s]
Arr(a) == [t |-> "array", a |-> a]

\* a row of the user table as selected by the handlers (id, email, name, role, createdAt)
UserProj(u, role, name, c) ==
  [t |-> "user", role |-> role, name |-> Str(name), id |-> u, email |-> u,
   createdAt |-> DateVal(c)]

\* a row of the task table
TaskRow(id, title, owner, c) ==
  [t |-> "task", id |-> id, createdAt |-> DateVal(c), title |-> title,
   description |-> Null, status |-> "OPEN", userId |-> owner]

\* JSON.stringify's tree: a Date is written by toJSON as its ISO-8601 string,
\* arrays and objects are written member by member
RECURSIVE ToJSON(_)
ToJSON(v) ==
  CASE v.t = "Date" -> IsoStr(v.ms)
    [] v.t = "array" -> Arr([i \in DOMAIN v.a |-> ToJSON(v.a[i])])
    [] v.t \in {"user", "task"} -> [v EXCEPT !.createdAt = ToJSON(v.createdAt)]
    [] OTHER -> v

\* the stored string: a JSON text, or bytes that are no JSON text
JSONStringify(v) == [t |-> "text", valid |-> TRUE, doc |-> ToJSON(v)]
Garbage == [t |-> "text", valid |-> FALSE, doc |-> Null]
\* JSON.parse gives back the tree; strings stay strings
JSONParse(text) == text.doc
ParseThrows(text) == ~text.valid

RawString(s) == [t |-> "raw", s |-> s]
IntString(n) == [t |-> "int", n |-> n]

----------------------------------------------------------------------------
(* Keys: `${namespace}:${id}` and `${namespace}:${id}:${subid}` *)

UserKey(u) == <<"user", ":", u>>
TasksKey(u) == <<"tasks", ":", u>>
TaskKey(id) == <<"task", ":", id>>
\* mutant: the key leaves out the token identifier
SessionKey_NoToken(u, k) == <<"session", ":", u>>
SessionKey(u, k) == <<"session", ":", u, ":", k>>
RateKey(u, e) == <<"ratelimit", ":", u, ":", e>>
\* mutant: the pattern `session:*`
SessionPattern_AllUsers(u) == <<"session", ":">>
SessionPattern(u) == <<"session", ":", u, ":">>    \* `session:${userId}:*`

IsPrefix(p, k) == Len(k) >= Len(p) /\ SubSeq(k, 1, Len(p)) = p

----------------------------------------------------------------------------
(* The store's commands, on a (store, ttl) pair *)

Drop(f, ks) == [k \in DOMAIN f \ ks |-> f[k]]
Put(f, k, v) == [x \in DOMAIN f \cup {k} |-> IF x = k THEN v ELSE f[x]]

RedisGet(k) == IF k \in DOMAIN store THEN store[k] ELSE Null
RedisExists(k) == IF k \in DOMAIN store THEN 1 ELSE 0
RedisKeys(p) == {k \in DOMAIN store : IsPrefix(p, k)}
RedisIncr(k) == IF k \in DOMAIN store THEN store[k].n + 1 ELSE 1

\* a cached string is truthy unless it is null
Truthy(c) == c.t # "null"

----------------------------------------------------------------------------
(* Outcomes of a call *)

Ret(v) == [threw |-> FALSE, val |-> v]
Throw == [threw |-> TRUE, val |-> Undefined]

\* mutant: the catch block rethrows
TryCatch_Rethrow(body, fallback) == body

\* try { body } catch { return fallback }
TryCatch(body, fallback) == IF body.threw THEN Ret(fallback) ELSE body

----------------------------------------------------------------------------
(* The key-value store adapter, src/lib/redis.ts *)

\* `fail` names the step of a call at which the client raises an error although
\* the server is reachable ("none": no such step)
\* mutant: the handle's own isOpen is not looked at
AttemptsConnect_FlagOnly == ~isConnected

\* if (!isConnected && !redisClient.isOpen)
AttemptsConnect == ~isConnected /\ ~isOpen
ConnectSucceeds(fail) == reachable /\ fail # "connect"
OpenAfter(fail) == isOpen \/ (AttemptsConnect /\ ConnectSucceeds(fail))
ConnectedAfter(fail) == isConnected \/ (AttemptsConnect /\ ConnectSucceeds(fail))

\* connectRedis: the connect error is caught and logged, the client is returned
ConnectRedis(fail) ==
  LET attempt == IF AttemptsConnect /\ ~ConnectSucceeds(fail) THEN Throw ELSE Ret(Undefined)
  IN  IF attempt.threw THEN Ret(Undefined) ELSE attempt

\* ensureConnection: true unless connectRedis throws
EnsureConnection(fail) == IF ConnectRedis(fail).threw THEN FALSE ELSE TRUE

\* the effect of connectRedis on the shared handle
Connect(fail) ==
  /\ isOpen' = OpenAfter(fail)
  /\ isConnected' = ConnectedAfter(fail)
  /\ UNCHANGED reachable

\* a command is answered when the client is open, the server reachable and no
\* error is injected at this step; otherwise it rejects
CmdOk(step, fail) == OpenAfter(fail) /\ reachable /\ fail # step

Same == [store |-> store, ttl |-> ttl]
\* mutant: a write of a key that exists keeps the expiry the key has
SetEx_KeepTtl(k, seconds, text, fail) ==
  IF CmdOk("setEx", fail)
  THEN [store |-> Put(store, k, text),
        ttl |-> IF k \in DOMAIN ttl THEN ttl ELSE Put(ttl, k, seconds), ok |-> TRUE]
  ELSE [store |-> store, ttl |-> ttl, ok |-> FALSE]

\* mutant: the value is written without an expiry
SetEx_Persist(k, seconds, text, fail) ==
  IF CmdOk("setEx", fail)
  THEN [store |-> Put(store, k, text), ttl |-> Put(ttl, k, NoExpiry), ok |-> TRUE]
  ELSE [store |-> store, ttl |-> ttl, ok |-> FALSE]

SetEx(k, seconds, text, fail) ==
  IF CmdOk("setEx", fail)
  THEN [store |-> Put(store, k, text), ttl |-> Put(ttl, k, seconds), ok |-> TRUE]
  ELSE [store |-> store, ttl |-> ttl, ok |-> FALSE]
Del(st, ks, step, fail) ==
  IF CmdOk(step, fail)
  THEN [store |-> Drop(st.store, ks), ttl |-> Drop(st.ttl, ks), ok |-> TRUE]
  ELSE [store |-> st.store, ttl |-> st.ttl, ok |-> FALSE]

Called(op, args, fail, out) ==
  /\ last' = [fail |-> fail, op |-> op, args |-> args, out |-> out]
  /\ UNCHANGED app

----------------------------------------------------------------------------
(* The cache policy layer, src/lib/cache.ts *)

\* mutant: an empty parsed list counts as a miss
GetCached_EmptyMiss(k, fail) ==
  TryCatch(
    IF ~EnsureConnection(fail) THEN Ret(Null)
    ELSE IF ~CmdOk("get", fail) THEN Throw
    ELSE LET cached == RedisGet(k) IN
         IF Truthy(cached)
         THEN (IF ParseThrows(cached) THEN Throw
               ELSE IF JSONParse(cached) = Arr(<<>>) THEN Ret(Null)
               ELSE Ret(JSONParse(cached)))
         ELSE Ret(Null),
    Null)

\* mutant: the catch block is missing
GetCached_Uncaught(k, fail) ==
  IF ~EnsureConnection(fail) THEN Ret(Null)
  ELSE IF ~CmdOk("get", fail) THEN Throw
  ELSE LET cached == RedisGet(k) IN
       IF Truthy(cached)
       THEN (IF ParseThrows(cached) THEN Throw ELSE Ret(JSONParse(cached)))
       ELSE Ret(Null)

\* getCachedUser / getCachedTasks / getCachedTask: the value returned
\* mutant: JSON.parse is outside the try block
GetCached_ParseUncaught(k, fail) ==
  LET got == TryCatch(
               IF ~EnsureConnection(fail) THEN Ret(Null)
               ELSE IF ~CmdOk("get", fail) THEN Throw
               ELSE Ret(RedisGet(k)),
               Null)
  IN  IF ~Truthy(got.val) THEN Ret(Null)
      ELSE IF ParseThrows(got.val) THEN Throw
      ELSE Ret(JSONParse(got.val))

GetCached(k, fail) ==
  TryCatch(
    IF ~EnsureConnection(fail) THEN Ret(Null)
    ELSE IF ~CmdOk("get", fail) THEN Throw
    ELSE LET cached == RedisGet(k) IN
         IF Truthy(cached)
         THEN (IF ParseThrows(cached) THEN Throw ELSE Ret(JSONParse(cached)))
         ELSE Ret(Null),
    Null)

\* setCachedUser / setCachedTasks / setCachedTask: outcome and store after the call
SetCached(k, seconds, v, fail) ==
  LET c == SetEx(k, seconds, JSONStringify(v), fail)
      r == IF ~EnsureConnection(fail) THEN [out |-> Ret(Undefined)] @@ Same
           ELSE [store |-> c.store, ttl |-> c.ttl,
                 out |-> IF c.ok THEN Ret(Undefined) ELSE Throw]
  IN  [r EXCEPT !.out = TryCatch(r.out, Undefined)]

\* mutant: nothing is deleted
Invalidate_Noop(k, fail) == [out |-> Ret(Undefined)] @@ Same

\* invalidateUserCache / invalidateTasksCache / revokeSession: one del
Invalidate(k, fail) ==
  LET c == Del(Same, {k}, "del", fail)
      r == IF ~EnsureConnection(fail) THEN [out |-> Ret(Undefined)] @@ Same
           ELSE [store |-> c.store, ttl |-> c.ttl,
                 out |-> IF c.ok THEN Ret(Undefined) ELSE Throw]
  IN  [r EXCEPT !.out = TryCatch(r.out, Undefined)]

\* mutant: only the task key is deleted
InvalidateTask_OnlyTask(taskId, userId, fail) ==
  LET c1 == Del(Same, {TaskKey(taskId)}, "del", fail)
      r == IF ~EnsureConnection(fail) THEN [out |-> Ret(Undefined)] @@ Same
           ELSE [store |-> c1.store, ttl |-> c1.ttl,
                 out |-> IF c1.ok THEN Ret(Undefined) ELSE Throw]
  IN  [r EXCEPT !.out = TryCatch(r.out, Undefined)]

\* mutant: the owner's user entry is deleted as well
InvalidateTask_UserWide(taskId, userId, fail) ==
  LET c1 == Del(Same, {TaskKey(taskId)}, "del", fail)
      c2 == Del(c1, {TasksKey(userId), UserKey(userId)}, "del2", fail)
      r == IF ~EnsureConnection(fail) THEN [out |-> Ret(Undefined)] @@ Same
           ELSE [store |-> c2.store, ttl |-> c2.ttl,
                 out |-> IF c1.ok /\ c2.ok THEN Ret(Undefined) ELSE Throw]
  IN  [r EXCEPT !.out = TryCatch(r.out, Undefined)]

\* invalidateTaskCache: Promise.all of two dels, both issued; the call fails when
\* either rejects, and the other still takes effect
\* mutant: the second del is issued only after the first succeeded
InvalidateTask_Sequential(taskId, userId, fail) ==
  LET c1 == Del(Same, {TaskKey(taskId)}, "del", fail)
      c2 == IF c1.ok THEN Del(c1, {TasksKey(userId)}, "del2", fail) ELSE c1
      r == IF ~EnsureConnection(fail) THEN [out |-> Ret(Undefined)] @@ Same
           ELSE [store |-> c2.store, ttl |-> c2.ttl,
                 out |-> IF c1.ok /\ c2.ok THEN Ret(Undefined) ELSE Throw]
  IN  [r EXCEPT !.out = TryCatch(r.out, Undefined)]

InvalidateTask(taskId, userId, fail) ==
  LET c1 == Del(Same, {TaskKey(taskId)}, "del", fail)
      c2 == Del(c1, {TasksKey(userId)}, "del2", fail)
      r == IF ~EnsureConnection(fail) THEN [out |-> Ret(Undefined)] @@ Same
           ELSE [store |-> c2.store, ttl |-> c2.ttl,
                 out |-> IF c1.ok /\ c2.ok THEN Ret(Undefined) ELSE Throw]
  IN  [r EXCEPT !.out = TryCatch(r.out, Undefined)]

Apply(r) == store' = r.store /\ ttl' = r.ttl

getCachedUser(u, fail) ==
  /\ Connect(fail) /\ UNCHANGED <<store, ttl>>
  /\ Called("getCachedUser", <<u>>, fail, GetCached(UserKey(u), fail))
setCachedUser(u, v, fail) ==
  LET r == SetCached(UserKey(u), CACHE_TTL_USER, v, fail) IN
  /\ Connect(fail) /\ Apply(r)
  /\ Called("setCachedUser", <<u, v>>, fail, r.out)
invalidateUserCache(u, fail) ==
  LET r == Invalidate(UserKey(u), fail) IN
  /\ Connect(fail) /\ Apply(r)
  /\ Called("invalidateUserCache", <<u>>, fail, r.out)

getCachedTasks(u, fail) ==
  /\ Connect(fail) /\ UNCHANGED <<store, ttl>>
  /\ Called("getCachedTasks", <<u>>, fail, GetCached(TasksKey(u), fail))
setCachedTasks(u, v, fail) ==
  LET r == SetCached(TasksKey(u), CACHE_TTL_TASKS, v, fail) IN
  /\ Connect(fail) /\ Apply(r)
  /\ Called("setCachedTasks", <<u, v>>, fail, r.out)
invalidateTasksCache(u, fail) ==
  LET r == Invalidate(TasksKey(u), fail) IN
  /\ Connect(fail) /\ Apply(r)
  /\ Called("invalidateTasksCache", <<u>>, fail, r.out)

getCachedTask(id, fail) ==
  /\ Connect(fail) /\ UNCHANGED <<store, ttl>>
  /\ Called("getCachedTask", <<id>>, fail, GetCached(TaskKey(id), fail))
setCachedTask(id, v, fail) ==
  LET r == SetCached(TaskKey(id), CACHE_TTL_TASK, v, fail) IN
  /\ Connect(fail) /\ Apply(r)
  /\ Called("setCachedTask", <<id, v>>, fail, r.out)
invalidateTaskCache(id, u, fail) ==
  LET r == InvalidateTask(id, u, fail) IN
  /\ Connect(fail) /\ Apply(r)
  /\ Called("invalidateTaskCache", <<id, u>>, fail, r.out)

----------------------------------------------------------------------------
(* The session registry *)

storeSession(u, k, token, fail) ==
  LET c == SetEx(SessionKey(u, k), CACHE_TTL_SESSION, RawString(token), fail)
      r == IF ~EnsureConnection(fail) THEN [out |-> Ret(Undefined)] @@ Same
           ELSE [store |-> c.store, ttl |-> c.ttl,
                 out |-> IF c.ok THEN Ret(Undefined) ELSE Throw]
  IN  /\ Connect(fail) /\ Apply(r)
      /\ Called("storeSession", <<u, k, token>>, fail, TryCatch(r.out, Undefined))

\* mutant: fail-closed
ValidateSession_FailClosed(u, k, fail) ==
  TryCatch(
    IF ~EnsureConnection(fail) THEN Ret(Bool(FALSE))
    ELSE IF ~CmdOk("exists", fail) THEN Throw
    ELSE Ret(Bool(RedisExists(SessionKey(u, k)) = 1)),
    Bool(FALSE))

\* validateSession: the value returned
ValidateSession(u, k, fail) ==
  TryCatch(
    IF ~EnsureConnection(fail) THEN Ret(Bool(TRUE))
    ELSE IF ~CmdOk("exists", fail) THEN Throw
    ELSE Ret(Bool(RedisExists(SessionKey(u, k)) = 1)),
    Bool(TRUE))

validateSession(u, k, fail) ==
  /\ Connect(fail) /\ UNCHANGED <<store, ttl>>
  /\ Called("validateSession", <<u, k>>, fail, ValidateSession(u, k, fail))

revokeSession(u, k, fail) ==
  LET r == Invalidate(SessionKey(u, k), fail) IN
  /\ Connect(fail) /\ Apply(r)
  /\ Called("revokeSession", <<u, k>>, fail, r.out)

\* revokeAllUserSessions: keys(`session:${userId}:*`), then one del of all of them
RevokeAll(u, fail) ==
  LET keys == RedisKeys(SessionPattern(u))
      c == IF keys # {} THEN Del(Same, keys, "del", fail) ELSE [ok |-> TRUE] @@ Same
      r == IF ~EnsureConnection(fail) THEN [out |-> Ret(Undefined)] @@ Same
           ELSE IF ~CmdOk("keys", fail) THEN [out |-> Throw] @@ Same
           ELSE [store |-> c.store, ttl |-> c.ttl,
                 out |-> IF c.ok THEN Ret(Undefined) ELSE Throw]
  IN  [r EXCEPT !.out = TryCatch(r.out, Undefined)]

revokeAllUserSessions(u, fail) ==
  LET r == RevokeAll(u, fail) IN
  /\ Connect(fail) /\ Apply(r)
  /\ Called("revokeAllUserSessions", <<u>>, fail, r.out)

----------------------------------------------------------------------------
(* The rate limiter *)

\* mutant: the remaining count is not floored at zero
Max_NoFloor(a, b) == b

Max(a, b) == IF a >= b THEN a ELSE b
Limit(allowed, remaining) == [t |-> "limit", allowed |-> allowed, remaining |-> remaining]

CheckRateLimit(u, e, maxRequests, fail) ==
  LET key == RateKey(u, e)
      current == RedisIncr(key)
      incremented == [store |-> Put(store, key, IntString(current)),
                      ttl |-> IF key \in DOMAIN ttl THEN ttl ELSE Put(ttl, key, NoExpiry)]
      expired == [incremented EXCEPT !.ttl = Put(@, key, RATE_WINDOW)]
      r == IF ~EnsureConnection(fail) THEN [out |-> Ret(Limit(TRUE, maxRequests))] @@ Same
           ELSE IF ~CmdOk("incr", fail) THEN [out |-> Throw] @@ Same
           ELSE IF current = 1 /\ ~CmdOk("expire", fail) THEN [out |-> Throw] @@ incremented
           ELSE [out |-> Ret(Limit(current <= maxRequests, Max(0, maxRequests - current)))]
                @@ (IF current = 1 THEN expired ELSE incremented)
  IN  [r EXCEPT !.out = TryCatch(r.out, Limit(TRUE, maxRequests))]

checkRateLimit(u, e, maxRequests, fail) ==
  LET r == CheckRateLimit(u, e, maxRequests, fail) IN
  /\ Connect(fail) /\ Apply(r)
  /\ Called("checkRateLimit", <<u, e, maxRequests>>, fail, r.out)

----------------------------------------------------------------------------
(* Cache introspection *)

\* mutant: the statistics are returned although the size query failed
GetCacheStats_Partial(fail) ==
  TryCatch(
    IF ~EnsureConnection(fail) THEN Ret([t |-> "stats", connected |-> FALSE])
    ELSE IF ~CmdOk("info", fail) THEN Throw
    ELSE IF ~CmdOk("dbSize", "none") THEN Throw
    ELSE Ret([t |-> "stats", connected |-> TRUE,
              dbSize |-> Cardinality(DOMAIN store), info |-> "stats"]),
    [t |-> "stats", connected |-> FALSE, error |-> "Error"])

GetCacheStats(fail) ==
  TryCatch(
    IF ~EnsureConnection(fail) THEN Ret([t |-> "stats", connected |-> FALSE])
    ELSE IF ~CmdOk("info", fail) \/ ~CmdOk("dbSize", fail) THEN Throw
    ELSE Ret([t |-> "stats", connected |-> TRUE,
              dbSize |-> Cardinality(DOMAIN store), info |-> "stats"]),
    [t |-> "stats", connected |-> FALSE, error |-> "Error"])

getCacheStats(fail) ==
  /\ Connect(fail) /\ UNCHANGED <<store, ttl>>
  /\ Called("getCacheStats", <<>>, fail, GetCacheStats(fail))

----------------------------------------------------------------------------
(* The environment of the cache layer *)

Env(what) == Called(what, <<>>, "none", Ret(Undefined))

\* d seconds pass: every key with an expiry is d seconds nearer to it, and a
\* key whose expiry is reached is removed by the store
Elapse(d) ==
  LET dead == {k \in DOMAIN store : ttl[k] # NoExpiry /\ ttl[k] <= d} IN
  /\ d > 0
  /\ store' = Drop(store, dead)
  /\ ttl' = [k \in DOMAIN ttl \ dead |-> IF ttl[k] = NoExpiry THEN NoExpiry ELSE ttl[k] - d]
  /\ UNCHANGED <<reachable, isOpen, isConnected>>
  /\ Called("elapse", <<d>>, "none", Ret(Undefined))

\* the store server stops answering, or answers again
StoreDown ==
  /\ reachable /\ reachable' = FALSE
  /\ UNCHANGED <<store, ttl, isOpen, isConnected>> /\ Env("storeDown")
StoreUp ==
  /\ ~reachable /\ reachable' = TRUE
  /\ UNCHANGED <<store, ttl, isOpen, isConnected>> /\ Env("storeUp")
\* the client reports itself closed
ClientClosed ==
  /\ isOpen /\ isOpen' = FALSE
  /\ UNCHANGED <<store, ttl, reachable, isConnected>> /\ Env("clientClosed")
\* an entry whose bytes are no JSON text of this deployment
Corrupt(k) ==
  /\ k \in DOMAIN store /\ store[k].t = "text" /\ store[k] # Garbage
  /\ store' = [store EXCEPT ![k] = Garbage]
  /\ UNCHANGED <<ttl, reachable, isOpen, isConnected>> /\ Env("corrupt")

----------------------------------------------------------------------------
(* The data store (prisma) *)

RECURSIVE SortDesc(_)
\* orderBy: { createdAt: 'desc' }
SortDesc(S) ==
  IF S = {} THEN <<>>
  ELSE LET m == CHOOSE x \in S : \A y \in S : x.createdAt.ms >= y.createdAt.ms
       IN  <<m>> \o SortDesc(S \ {m})

\* prisma.task.findMany({ where: { userId } , orderBy: { createdAt: 'desc' } })
FindMany(u) == Arr(SortDesc({tasks[id] : id \in {i \in DOMAIN tasks : tasks[i].userId = u}}))
\* prisma.task.findUnique / prisma.user.findUnique
FindTask(id) == IF id \in DOMAIN tasks THEN tasks[id] ELSE Null
FindUser(u) == IF u \in DOMAIN users THEN users[u] ELSE Null

----------------------------------------------------------------------------
(* Requests: requireAuth / requireAdmin and the route handlers.  A request  *)
(* takes one step per awaited call of the data store or of the cache layer. *)

\* the payload of a token issued to u at login
Payload(u) == [role |-> RoleAtStart(u), userId |-> u]

\* a request body: the fields a handler reads; "undef" for an absent field
Body(title, role, name) == [role |-> role, name |-> name, title |-> title]
NoBody == Body("undef", "undef", "undef")

NewReq(h, u, id, body) ==
  [h |-> h, id |-> id, body |-> body, user |-> Payload(u), pc |-> "start", loc |-> Null]

\* NextResponse.json(data, { status })
Response(status, data, cached) ==
  [status |-> status, cached |-> cached, data |-> ToJSON(data)]

\* the request of slot s goes on as r
Goto(s, r) == req' = [req EXCEPT ![s] = r] /\ UNCHANGED last
\* the request r of slot s is answered
Done(s, r, status, data, cached) ==
  /\ req' = [req EXCEPT ![s] = Idle]
  /\ last' = [fail |-> "none", op |-> r.h, args |-> <<r.user.userId, r.id, r.body>>,
              out |-> Ret(Response(status, data, cached))]

IsIdle(s) == req[s].h = "idle"
At(s, h, pc) == req[s].h = h /\ req[s].pc = pc
Db == <<tasks, users, created>>
Cache == <<store, ttl>>

\* a value is truthy unless it is null
JsTruthy(v) == v.t # "null"

\* ---- GET /api/tasks
GetTasks_cache(s, u) ==
  LET r == NewReq("GET /api/tasks", u, "-", NoBody)
      c == GetCached(TasksKey(u), "none").val IN
  /\ IsIdle(s)
  /\ Connect("none") /\ UNCHANGED <<Cache, Db>>
  /\ IF JsTruthy(c) THEN Done(s, r, 200, c, "true")
     ELSE Goto(s, [r EXCEPT !.pc = "findMany"])
GetTasks_findMany(s) ==
  /\ At(s, "GET /api/tasks", "findMany")
  /\ Goto(s, [req[s] EXCEPT !.pc = "setCached", !.loc = FindMany(req[s].user.userId)])
  /\ UNCHANGED <<Cache, Db, reachable, isOpen, isConnected>>
GetTasks_setCached(s) ==
  LET r == req[s]
      w == SetCached(TasksKey(r.user.userId), CACHE_TTL_TASKS, r.loc, "none") IN
  /\ At(s, "GET /api/tasks", "setCached")
  /\ Connect("none") /\ Apply(w) /\ UNCHANGED Db
  /\ Done(s, r, 200, r.loc, "false")

\* ---- POST /api/tasks
PostTasks_create(s, u, title) ==
  LET r == NewReq("POST /api/tasks", u, "-", Body(title, "undef", "undef"))
      id == TaskIdSeq[created + 1]
      row == TaskRow(id, title, u, created + 1) IN
  /\ IsIdle(s)
  /\ UNCHANGED <<Cache, reachable, isOpen, isConnected>>
  /\ IF title = "" THEN Done(s, r, 400, Str("Title is required"), "-") /\ UNCHANGED Db
     ELSE IF u \notin DOMAIN users
     THEN Done(s, r, 500, Str("Internal server error"), "-") /\ UNCHANGED Db
     ELSE /\ created < Len(TaskIdSeq)
          /\ tasks' = Put(tasks, id, row) /\ created' = created + 1 /\ UNCHANGED users
          /\ Goto(s, [r EXCEPT !.pc = "invalidate", !.loc = row])
\* mutant: the created task is written into the cache (write-through)
PostTasks_invalidate_WriteThrough(s) ==
  LET r == req[s]
      w == SetCached(TaskKey(r.loc.id), CACHE_TTL_TASK, r.loc, "none") IN
  /\ At(s, "POST /api/tasks", "invalidate")
  /\ Connect("none") /\ Apply(w) /\ UNCHANGED Db
  /\ Done(s, r, 201, r.loc, "-")

PostTasks_invalidate(s) ==
  LET r == req[s]
      w == Invalidate(TasksKey(r.user.userId), "none") IN
  /\ At(s, "POST /api/tasks", "invalidate")
  /\ Connect("none") /\ Apply(w) /\ UNCHANGED Db
  /\ Done(s, r, 201, r.loc, "-")

\* ---- GET /api/tasks/[id]
\* mutant: a cached task is served without the ownership check
GetTask_cache_NoOwnerCheck(s, u, id) ==
  LET r == NewReq("GET /api/tasks/[id]", u, id, NoBody)
      c == GetCached(TaskKey(id), "none").val IN
  /\ IsIdle(s)
  /\ Connect("none") /\ UNCHANGED <<Cache, Db>>
  /\ IF JsTruthy(c) THEN Done(s, r, 200, c, "true")
     ELSE Goto(s, [r EXCEPT !.pc = "findUnique"])

GetTask_cache(s, u, id) ==
  LET r == NewReq("GET /api/tasks/[id]", u, id, NoBody)
      c == GetCached(TaskKey(id), "none").val IN
  /\ IsIdle(s)
  /\ Connect("none") /\ UNCHANGED <<Cache, Db>>
  /\ IF JsTruthy(c)
     THEN (IF c.userId # u THEN Done(s, r, 403, Str("Unauthorized"), "-")
           ELSE Done(s, r, 200, c, "true"))
     ELSE Goto(s, [r EXCEPT !.pc = "findUnique"])
GetTask_findUnique(s) ==
  LET r == req[s]
      row == FindTask(r.id) IN
  /\ At(s, "GET /api/tasks/[id]", "findUnique")
  /\ UNCHANGED <<Cache, Db, reachable, isOpen, isConnected>>
  /\ IF ~JsTruthy(row) THEN Done(s, r, 404, Str("Task not found"), "-")
     ELSE IF row.userId # r.user.userId THEN Done(s, r, 403, Str("Unauthorized"), "-")
     ELSE Goto(s, [r EXCEPT !.pc = "setCached", !.loc = row])
GetTask_setCached(s) ==
  LET r == req[s]
      w == SetCached(TaskKey(r.id), CACHE_TTL_TASK, r.loc, "none") IN
  /\ At(s, "GET /api/tasks/[id]", "setCached")
  /\ Connect("none") /\ Apply(w) /\ UNCHANGED Db
  /\ Done(s, r, 200, r.loc, "false")

\* ---- PATCH /api/tasks/[id] and DELETE /api/tasks/[id]: the common prefix
Owned_findUnique(s, h, u, id, body, next) ==
  LET r == NewReq(h, u, id, body)
      row == FindTask(id) IN
  /\ IsIdle(s)
  /\ UNCHANGED <<Cache, Db, reachable, isOpen, isConnected>>
  /\ IF ~JsTruthy(row) THEN Done(s, r, 404, Str("Task not found"), "-")
     ELSE IF row.userId # u THEN Done(s, r, 403, Str("Unauthorized"), "-")
     ELSE Goto(s, [r EXCEPT !.pc = next])
\* mutant: the handler answers without invalidating
Owned_invalidate_Skip(s, h, data) ==
  LET r == req[s] IN
  /\ At(s, h, "invalidate")
  /\ Connect("none") /\ UNCHANGED <<Cache, Db>>
  /\ Done(s, r, 200, data, "-")

Owned_invalidate(s, h, data) ==
  LET r == req[s]
      w == InvalidateTask(r.id, r.user.userId, "none") IN
  /\ At(s, h, "invalidate")
  /\ Connect("none") /\ Apply(w) /\ UNCHANGED Db
  /\ Done(s, r, 200, data, "-")

PatchTask_findUnique(s, u, id, title) ==
  Owned_findUnique(s, "PATCH /api/tasks/[id]", u, id, Body(title, "undef", "undef"), "update")
\* prisma.task.update rejects when the row is gone: the handler answers 500
PatchTask_update(s) ==
  LET r == req[s] IN
  /\ At(s, "PATCH /api/tasks/[id]", "update")
  /\ UNCHANGED <<Cache, users, created, reachable, isOpen, isConnected>>
  /\ IF r.id \in DOMAIN tasks
     THEN /\ tasks' = [tasks EXCEPT ![r.id].title = r.body.title]
          /\ Goto(s, [r EXCEPT !.pc = "invalidate", !.loc = tasks'[r.id]])
     ELSE /\ Done(s, r, 500, Str("Internal server error"), "-") /\ UNCHANGED tasks
PatchTask_invalidate(s) == Owned_invalidate(s, "PATCH /api/tasks/[id]", req[s].loc)

DeleteTask_findUnique(s, u, id) ==
  Owned_findUnique(s, "DELETE /api/tasks/[id]", u, id, NoBody, "delete")
DeleteTask_delete(s) ==
  LET r == req[s] IN
  /\ At(s, "DELETE /api/tasks/[id]", "delete")
  /\ UNCHANGED <<Cache, users, created, reachable, isOpen, isConnected>>
  /\ IF r.id \in DOMAIN tasks
     THEN /\ tasks' = Drop(tasks, {r.id})
          /\ Goto(s, [r EXCEPT !.pc = "invalidate"])
     ELSE /\ Done(s, r, 500, Str("Internal server error"), "-") /\ UNCHANGED tasks
DeleteTask_invalidate(s) ==
  Owned_invalidate(s, "DELETE /api/tasks/[id]", Str("Task deleted successfully"))

\* ---- GET /api/auth/me
GetMe_cache(s, u) ==
  LET r == NewReq("GET /api/auth/me", u, "-", NoBody)
      c == GetCached(UserKey(u), "none").val IN
  /\ IsIdle(s)
  /\ Connect("none") /\ UNCHANGED <<Cache, Db>>
  /\ IF JsTruthy(c) THEN Done(s, r, 200, c, "true")
     ELSE Goto(s, [r EXCEPT !.pc = "findUnique"])
GetMe_findUnique(s) ==
  LET r == req[s]
      row == FindUser(r.user.userId) IN
  /\ At(s, "GET /api/auth/me", "findUnique")
  /\ UNCHANGED <<Cache, Db, reachable, isOpen, isConnected>>
  /\ IF ~JsTruthy(row) THEN Done(s, r, 404, Str("User not found"), "-")
     ELSE Goto(s, [r EXCEPT !.pc = "setCached", !.loc = row])
GetMe_setCached(s) ==
  LET r == req[s]
      w == SetCached(UserKey(r.user.userId), CACHE_TTL_USER, r.loc, "none") IN
  /\ At(s, "GET /api/auth/me", "setCached")
  /\ Connect("none") /\ Apply(w) /\ UNCHANGED Db
  /\ Done(s, r, 200, r.loc, "false")

\* ---- requireAdmin, then the lookup PATCH and DELETE /api/admin/users/[id] begin with
Admin_findUnique(s, h, a, id, body, refused, why, next) ==
  LET r == NewReq(h, a, id, body)
      row == FindUser(id) IN
  /\ IsIdle(s)
  /\ UNCHANGED <<Cache, Db, reachable, isOpen, isConnected>>
  /\ IF r.user.role # "ADMIN" THEN Done(s, r, 403, Str("Admin access required"), "-")
     ELSE IF refused THEN Done(s, r, 400, Str(why), "-")
     ELSE IF ~JsTruthy(row) THEN Done(s, r, 404, Str("User not found"), "-")
     ELSE Goto(s, [r EXCEPT !.pc = next, !.loc = row])
Admin_invalidateUser(s, h) ==
  LET r == req[s]
      w == Invalidate(UserKey(r.id), "none") IN
  /\ At(s, h, "invalidateUser")
  /\ Connect("none") /\ Apply(w) /\ UNCHANGED Db
  /\ IF h = "PATCH /api/admin/users/[id]"
        /\ ~(r.body.role # "undef" /\ r.body.role # r.loc.old.role)
     THEN Done(s, r, 200, r.loc.new, "-")
     ELSE Goto(s, [r EXCEPT !.pc = "revoke"])
Admin_revoke(s, h, data) ==
  LET r == req[s]
      w == RevokeAll(r.id, "none") IN
  /\ At(s, h, "revoke")
  /\ Connect("none") /\ Apply(w) /\ UNCHANGED Db
  /\ Done(s, r, 200, data, "-")

\* ---- PATCH /api/admin/users/[id]
\* mutant: an admin may demote themselves
PatchUser_findUnique_NoSelfCheck(s, a, id, role, name) ==
  Admin_findUnique(s, "PATCH /api/admin/users/[id]", a, id, Body("undef", role, name),
                   FALSE, "Cannot demote yourself from admin", "update")
PatchUser_findUnique(s, a, id, role, name) ==
  Admin_findUnique(s, "PATCH /api/admin/users/[id]", a, id, Body("undef", role, name),
                   id = a /\ role = "USER", "Cannot demote yourself from admin", "update")
\* existingUser is kept for the role comparison, updatedUser for the answer
PatchUser_update(s) ==
  LET r == req[s]
      old == users[r.id]
      new == [old EXCEPT !.role = IF r.body.role # "undef" THEN r.body.role ELSE @,
                         !.name = IF r.body.name # "undef" THEN Str(r.body.name) ELSE @] IN
  /\ At(s, "PATCH /api/admin/users/[id]", "update")
  /\ UNCHANGED <<Cache, tasks, created, reachable, isOpen, isConnected>>
  /\ IF r.id \in DOMAIN users
     THEN /\ users' = [users EXCEPT ![r.id] = new]
          /\ Goto(s, [r EXCEPT !.pc = "invalidateUser",
                               !.loc = [t |-> "updated", old |-> r.loc, new |-> new]])
     ELSE Done(s, r, 500, Str("Internal server error"), "-") /\ UNCHANGED users
PatchUser_invalidateUser(s) == Admin_invalidateUser(s, "PATCH /api/admin/users/[id]")
PatchUser_revoke(s) ==
  Admin_revoke(s, "PATCH /api/admin/users/[id]", req[s].loc.new)

\* ---- DELETE /api/admin/users/[id]
DeleteUser_findUnique(s, a, id) ==
  Admin_findUnique(s, "DELETE /api/admin/users/[id]", a, id, NoBody,
                   id = a, "Cannot delete yourself", "delete")
\* prisma.user.delete: the user's tasks are deleted with the user (onDelete: Cascade)
DeleteUser_delete(s) ==
  LET r == req[s] IN
  /\ At(s, "DELETE /api/admin/users/[id]", "delete")
  /\ UNCHANGED <<Cache, created, reachable, isOpen, isConnected>>
  /\ IF r.id \in DOMAIN users
     THEN /\ users' = Drop(users, {r.id})
          /\ tasks' = Drop(tasks, {i \in DOMAIN tasks : tasks[i].userId = r.id})
          /\ Goto(s, [r EXCEPT !.pc = "invalidateUser"])
     ELSE Done(s, r, 500, Str("Internal server error"), "-") /\ UNCHANGED <<users, tasks>>
DeleteUser_invalidateUser(s) == Admin_invalidateUser(s, "DELETE /api/admin/users/[id]")
DeleteUser_revoke(s) ==
  Admin_revoke(s, "DELETE /api/admin/users/[id]", Str("User deleted successfully"))

\* ---- POST /api/admin/users/[id]/password
ResetPassword_findUnique(s, a, id, pw) ==
  Admin_findUnique(s, "POST /api/admin/users/[id]/password", a, id, [newPassword |-> pw],
                   Len(pw) < 8,
                   IF pw = "" THEN "New password is required"
                   ELSE "Password must be at least 8 characters",
                   "update")
\* hashPassword, then prisma.user.update of the hash: the selected columns stay
ResetPassword_update(s) ==
  LET r == req[s] IN
  /\ At(s, "POST /api/admin/users/[id]/password", "update")
  /\ UNCHANGED <<Cache, Db, reachable, isOpen, isConnected>>
  /\ IF r.id \in DOMAIN users THEN Goto(s, [r EXCEPT !.pc = "revoke"])
     ELSE Done(s, r, 500, Str("Internal server error"), "-")
ResetPassword_revoke(s) ==
  Admin_revoke(s, "POST /api/admin/users/[id]/password",
               Str("Password reset successfully. User must login again."))

----------------------------------------------------------------------------
(* ensureConnection / connectRedis as two steps: the call of                *)
(* redisClient.connect(), which marks the handle open at once, and the      *)
(* settling of the promise it returned.                                      *)

Answer(fail, v) == [fail |-> fail, op |-> "ensureConnection", args |-> <<>>, out |-> v]

ensureConnection_begin(s) ==
  /\ IsIdle(s)
  /\ UNCHANGED <<Cache, Db, reachable, isConnected>>
  /\ IF AttemptsConnect
     THEN /\ isOpen' = TRUE
          /\ req' = [req EXCEPT ![s] = [h |-> "ensureConnection", pc |-> "connect"]]
          /\ UNCHANGED last
     ELSE /\ UNCHANGED <<isOpen, req>>
          /\ last' = Answer("none", Ret(Bool(TRUE)))
ensureConnection_settle(s) ==
  LET attempt == IF reachable THEN Ret(Undefined) ELSE Throw
      \* connectRedis: the catch block logs and the client is returned
      connectRedis == TryCatch(attempt, Undefined)
  IN
  /\ At(s, "ensureConnection", "connect")
  /\ isOpen' = ~attempt.threw
  /\ isConnected' = (isConnected \/ ~attempt.threw)
  /\ req' = [req EXCEPT ![s] = Idle]
  /\ last' = Answer(IF attempt.threw THEN "connect" ELSE "none",
                    IF connectRedis.threw THEN Ret(Bool(FALSE)) ELSE Ret(Bool(TRUE)))
  /\ UNCHANGED <<Cache, Db, reachable>>

----------------------------------------------------------------------------
(* Values handed to the cache layer *)

UserValues(u) == {UserProj(u, "USER", u, 1)}
TaskValues(id) == {TaskRow(id, "a", o, 1) : o \in Users}
TasksValues(u) == {Arr(<<>>), Arr(<<TaskRow("t1", "a", u, 1)>>),
                   Arr(<<TaskRow("t2", "b", u, 2), TaskRow("t1", "a", u, 1)>>)}

----------------------------------------------------------------------------
(* Spec: every exported function of the cache layer, called one after       *)
(* another on a narrow domain, the store going down and up, the client       *)
(* closing, entries being corrupted, and an error injected at any step.      *)

Init ==
  /\ store = <<>>
  /\ ttl = <<>>
  /\ reachable \in BOOLEAN
  /\ isOpen = FALSE
  /\ isConnected = FALSE
  /\ last = [fail |-> "none", op |-> "init", args |-> <<>>, out |-> Ret(Undefined)]
  /\ tasks = <<>>
  /\ users = [u \in AllUsers |-> UserProj(u, RoleAtStart(u), u, 0)]
  /\ created = 0
  /\ req = [s \in Slots |-> Idle]

CacheKeys(U, T) ==
  {UserKey(u) : u \in U} \cup {TasksKey(u) : u \in U} \cup {TaskKey(id) : id \in T}

NextFault ==
  \/ \E u \in FaultUsers, f \in {"none", "connect", "get"} : getCachedUser(u, f)
  \/ \E u \in FaultUsers, f \in {"none", "connect", "setEx"} :
       \E v \in UserValues(u) : setCachedUser(u, v, f)
  \/ \E u \in FaultUsers, f \in {"none", "connect", "del"} : invalidateUserCache(u, f)
  \/ \E u \in FaultUsers, f \in {"none", "connect", "get"} : getCachedTasks(u, f)
  \/ \E u \in FaultUsers, f \in {"none", "connect", "setEx"} :
       \E v \in {Arr(<<>>), Arr(<<TaskRow("t1", "a", u, 1)>>)} : setCachedTasks(u, v, f)
  \/ \E u \in FaultUsers, f \in {"none", "connect", "del"} : invalidateTasksCache(u, f)
  \/ \E id \in FaultTaskIds, f \in {"none", "connect", "get"} : getCachedTask(id, f)
  \/ \E id \in FaultTaskIds, f \in {"none", "connect", "setEx"} :
       setCachedTask(id, TaskRow(id, "a", "u1", 1), f)
  \/ \E id \in FaultTaskIds, u \in FaultUsers, f \in {"none", "connect", "del", "del2"} :
       invalidateTaskCache(id, u, f)
  \/ \E u \in FaultUsers, k \in FaultTokenIds, f \in {"none", "connect", "setEx"} :
       storeSession(u, k, "jwtA", f)
  \/ \E u \in FaultUsers, k \in FaultTokenIds, f \in {"none", "connect", "exists"} :
       validateSession(u, k, f)
  \/ \E u \in FaultUsers, k \in FaultTokenIds, f \in {"none", "connect", "del"} :
       revokeSession(u, k, f)
  \/ \E u \in FaultUsers, f \in {"none", "connect", "keys", "del"} :
       revokeAllUserSessions(u, f)
  \/ \E u \in FaultUsers, e \in Endpoints, n \in 1..MaxN,
        f \in {"none", "connect", "incr", "expire"} :
       RedisIncr(RateKey(u, e)) <= FaultMaxCount /\ checkRateLimit(u, e, n, f)
  \/ \E f \in {"none", "connect", "info", "dbSize"} : getCacheStats(f)
  \/ StoreDown
  \/ StoreUp
  \/ ClientClosed
  \/ \E k \in CacheKeys(FaultUsers, FaultTaskIds) : Corrupt(k)

Spec == Init /\ [][NextFault]_vars

----------------------------------------------------------------------------
(* SpecReach: the store reachable throughout; the cache functions of every  *)
(* entity type on two users and two tasks, next to session and rate-limit   *)
(* keys of the same users.                                                   *)

InitReach == Init /\ reachable

NextReach ==
  \/ \E u \in Users : getCachedUser(u, "none")
  \/ \E u \in Users : \E v \in UserValues(u) : setCachedUser(u, v, "none")
  \/ \E u \in Users : invalidateUserCache(u, "none")
  \/ \E u \in Users : getCachedTasks(u, "none")
  \/ \E u \in Users : \E v \in {Arr(<<>>), Arr(<<TaskRow("t1", "a", u, 1)>>)} :
       setCachedTasks(u, v, "none")
  \/ \E u \in Users : invalidateTasksCache(u, "none")
  \/ \E id \in TaskIds : getCachedTask(id, "none")
  \/ \E id \in TaskIds : setCachedTask(id, TaskRow(id, "a", "u1", 1), "none")
  \/ \E id \in TaskIds, u \in Users : invalidateTaskCache(id, u, "none")
  \/ \E u \in Users : storeSession(u, "1", "jwtA", "none")
  \/ \E u \in Users : RedisIncr(RateKey(u, "e1")) <= 1 /\ checkRateLimit(u, "e1", 1, "none")

SpecReach == InitReach /\ [][NextReach]_vars

----------------------------------------------------------------------------
(* SpecSession: the session registry on two users, the store reachable.     *)

NextSession ==
  \/ \E u \in Users, k \in TokenIds, j \in Jwts : storeSession(u, k, j, "none")
  \/ \E u \in Users, k \in TokenIds : validateSession(u, k, "none")
  \/ \E u \in Users, k \in TokenIds : revokeSession(u, k, "none")
  \/ \E u \in Users : revokeAllUserSessions(u, "none")

SpecSession == InitReach /\ [][NextSession]_vars

----------------------------------------------------------------------------
(* SpecSeq: the route handlers, requests handled one after another, the     *)
(* store reachable.                                                          *)

Titles == {"", "a", "b"}

NextSeq ==
  \/ \E u \in Users : GetTasks_cache(1, u)
  \/ GetTasks_findMany(1)
  \/ GetTasks_setCached(1)
  \/ \E u \in Users, title \in Titles : PostTasks_create(1, u, title)
  \/ PostTasks_invalidate(1)
  \/ \E u \in Users, id \in TaskIds : GetTask_cache(1, u, id)
  \/ GetTask_findUnique(1)
  \/ GetTask_setCached(1)
  \/ \E u \in Users, id \in TaskIds : PatchTask_findUnique(1, u, id, "b")
  \/ PatchTask_update(1)
  \/ PatchTask_invalidate(1)
  \/ \E u \in Users, id \in TaskIds : DeleteTask_findUnique(1, u, id)
  \/ DeleteTask_delete(1)
  \/ DeleteTask_invalidate(1)
  \/ \E a \in AllUsers, id \in AllUsers : DeleteUser_findUnique(1, a, id)
  \/ DeleteUser_delete(1)
  \/ DeleteUser_invalidateUser(1)
  \/ DeleteUser_revoke(1)

SpecSeq == InitReach /\ [][NextSeq]_vars

----------------------------------------------------------------------------
(* SpecConc: two requests in flight at once, their awaited calls            *)
(* interleaved, the store reachable.                                         *)

ConcUsers == {"u1"}
ConcTaskIds == {"t1"}

NextConc ==
  \/ \E s \in Slots, u \in ConcUsers : GetTasks_cache(s, u)
  \/ \E s \in Slots : GetTasks_findMany(s)
  \/ \E s \in Slots : GetTasks_setCached(s)
  \/ \E s \in Slots, u \in ConcUsers : PostTasks_create(s, u, "a")
  \/ \E s \in Slots : PostTasks_invalidate(s)
  \/ \E s \in Slots, u \in ConcUsers, id \in ConcTaskIds : GetTask_cache(s, u, id)
  \/ \E s \in Slots : GetTask_findUnique(s)
  \/ \E s \in Slots : GetTask_setCached(s)
  \/ \E s \in Slots, u \in ConcUsers, id \in ConcTaskIds : PatchTask_findUnique(s, u, id, "b")
  \/ \E s \in Slots : PatchTask_update(s)
  \/ \E s \in Slots : PatchTask_invalidate(s)
  \/ \E s \in Slots, u \in ConcUsers : GetMe_cache(s, u)
  \/ \E s \in Slots : GetMe_findUnique(s)
  \/ \E s \in Slots : GetMe_setCached(s)
  \/ \E s \in Slots, a \in Admins, id \in ConcUsers, role \in {"undef", "ADMIN"} :
       PatchUser_findUnique(s, a, id, role, IF role = "undef" THEN "n2" ELSE "undef")
  \/ \E s \in Slots : PatchUser_update(s)
  \/ \E s \in Slots : PatchUser_invalidateUser(s)
  \/ \E s \in Slots : PatchUser_revoke(s)

SpecConc == InitReach /\ [][NextConc]_vars

----------------------------------------------------------------------------
(* SpecAuth: logins recorded in the session registry, the admin changing a  *)
(* role or resetting a password, and requests of the users carrying the     *)
(* tokens they were issued; one request at a time, the store reachable.     *)

Passwords == <<"", "short", "longenough">>

NextAuth ==
  \/ \E u \in Users, k \in TokenIds : storeSession(u, k, "jwtA", "none")
  \/ \E a \in AllUsers, id \in Users, role \in {"USER", "ADMIN"} :
       PatchUser_findUnique(1, a, id, role, "undef")
  \/ PatchUser_update(1)
  \/ PatchUser_invalidateUser(1)
  \/ PatchUser_revoke(1)
  \/ \E a \in AllUsers, id \in Users, i \in DOMAIN Passwords :
       ResetPassword_findUnique(1, a, id, Passwords[i])
  \/ ResetPassword_update(1)
  \/ ResetPassword_revoke(1)
  \/ \E u \in Users : GetMe_cache(1, u)
  \/ GetMe_findUnique(1)
  \/ GetMe_setCached(1)

SpecAuth == InitReach /\ [][NextAuth]_vars

----------------------------------------------------------------------------
(* SpecRate: the rate limiter and the passing of time, the store reachable; *)
(* SpecRateFault: the same with the expire command allowed to fail.         *)

RateCap == 4         \* the counter's cap in these specifications
Ticks == {1, 30, 60}

NextRate ==
  \/ \E u \in FaultUsers, e \in Endpoints, n \in 1..MaxN :
       RedisIncr(RateKey(u, e)) <= RateCap /\ checkRateLimit(u, e, n, "none")
  \/ \E d \in Ticks : Elapse(d)

SpecRate == InitReach /\ [][NextRate]_vars

NextRateFault ==
  \/ \E u \in FaultUsers, e \in Endpoints, n \in 1..MaxN, f \in {"none", "expire"} :
       RedisIncr(RateKey(u, e)) <= RateCap /\ checkRateLimit(u, e, n, f)
  \/ \E d \in Ticks : Elapse(d)

SpecRateFault == InitReach /\ [][NextRateFault]_vars

----------------------------------------------------------------------------
(* SpecTtl: one entry of each entity type and one session written and read  *)
(* while time passes, the store reachable. Time passes by the lifetime of  *)
(* an entity type or by a second less.                                      *)

TtlKeys ==
  {UserKey(u) : u \in FaultUsers} \cup {TasksKey(u) : u \in FaultUsers}
  \cup {TaskKey(id) : id \in FaultTaskIds}
  \cup {SessionKey(u, k) : u \in FaultUsers, k \in FaultTokenIds}
\* the lifetime the policy gives a key, by its namespace
TtlOf(k) ==
  CASE k[1] = "user" -> 3600
    [] k[1] = "tasks" -> 300
    [] k[1] = "task" -> 600
    [] k[1] = "session" -> 604800
MaxAge == 600        \* an entry older than this many seconds is followed no further
Jumps == {TtlOf(k) - j : k \in TtlKeys, j \in {0, 1}}
\* after d seconds every entry that is left is at most MaxAge seconds old
Aged(d) == \A k \in DOMAIN ttl : ttl[k] > d => TtlOf(k) - (ttl[k] - d) <= MaxAge

NextTtl ==
  \/ \E u \in FaultUsers : getCachedUser(u, "none")
  \/ \E u \in FaultUsers : \E v \in UserValues(u) : setCachedUser(u, v, "none")
  \/ \E u \in FaultUsers : getCachedTasks(u, "none")
  \/ \E u \in FaultUsers : setCachedTasks(u, Arr(<<>>), "none")
  \/ \E id \in FaultTaskIds : getCachedTask(id, "none")
  \/ \E id \in FaultTaskIds : setCachedTask(id, TaskRow(id, "a", "u1", 1), "none")
  \/ \E u \in FaultUsers, k \in FaultTokenIds : storeSession(u, k, "jwtA", "none")
  \/ \E u \in FaultUsers, k \in FaultTokenIds : validateSession(u, k, "none")
  \/ \E d \in Jumps : Aged(d) /\ Elapse(d)

SpecTtl == InitReach /\ [][NextTtl]_vars

----------------------------------------------------------------------------
(* SpecConn: two callers of ensureConnection interleaved with cache calls,  *)
(* the store going down and up and the client closing; SpecConnReach: the   *)
(* same callers with the store reachable and the client left alone.         *)

NextConn ==
  \/ \E s \in Slots : ensureConnection_begin(s)
  \/ \E s \in Slots : ensureConnection_settle(s)
  \/ \E u \in FaultUsers : getCachedUser(u, "none")
  \/ \E u \in FaultUsers : \E v \in UserValues(u) : setCachedUser(u, v, "none")
  \/ StoreDown
  \/ StoreUp
  \/ ClientClosed

SpecConn == Init /\ [][NextConn]_vars

NextConnReach ==
  \/ \E s \in Slots : ensureConnection_begin(s)
  \/ \E s \in Slots : ensureConnection_settle(s)
  \/ \E u \in Users : getCachedUser(u, "none")
  \/ \E u \in Users : \E v \in UserValues(u) : setCachedUser(u, v, "none")
  \/ \E u \in Users : invalidateUserCache(u, "none")
  \/ \E u \in Users : getCachedTasks(u, "none")
  \/ \E u \in Users : setCachedTasks(u, Arr(<<>>), "none")

SpecConnReach == InitReach /\ [][NextConnReach]_vars

----------------------------------------------------------------------------
(* SpecStale: reads and writes of one user's task list by two requests in   *)
(* flight, the admin deleting the user, the store going down and up (an     *)
(* invalidation made meanwhile fails), and time passing.                    *)

StaleTicks == {299, 300}

NextStale ==
  \/ \E s \in Slots, u \in ConcUsers : GetTasks_cache(s, u)
  \/ \E s \in Slots : GetTasks_findMany(s)
  \/ \E s \in Slots : GetTasks_setCached(s)
  \/ \E s \in Slots, u \in ConcUsers : PostTasks_create(s, u, "a")
  \/ \E s \in Slots : PostTasks_invalidate(s)
  \/ \E s \in Slots, a \in Admins, id \in ConcUsers : DeleteUser_findUnique(s, a, id)
  \/ \E s \in Slots : DeleteUser_delete(s)
  \/ \E s \in Slots : DeleteUser_invalidateUser(s)
  \/ \E s \in Slots : DeleteUser_revoke(s)
  \/ StoreDown
  \/ StoreUp
  \/ \E d \in StaleTicks : Elapse(d)

SpecStale == InitReach /\ [][NextStale]_vars

----------------------------------------------------------------------------
(* Properties of the cache layer *)

Getters == {"getCachedUser", "getCachedTasks", "getCachedTask"}
Setters == {"setCachedUser", "setCachedTasks", "setCachedTask"}
Mutators == Setters \cup
  {"invalidateUserCache", "invalidateTasksCache", "invalidateTaskCache",
   "storeSession", "revokeSession", "revokeAllUserSessions"}

\* the cache key a get or set call is about
KeyOf(c) ==
  CASE c.op \in {"getCachedUser", "setCachedUser"} -> UserKey(c.args[1])
    [] c.op \in {"getCachedTasks", "setCachedTasks"} -> TasksKey(c.args[1])
    [] c.op \in {"getCachedTask", "setCachedTask"} -> TaskKey(c.args[1])

StatsDown == [t |-> "stats", connected |-> FALSE, error |-> "Error"]

C2_NeverThrows ==
  /\ ~last.out.threw
  /\ last.fail = "get" => last.out = Ret(Null)
  /\ last.fail = "exists" => last.out = Ret(Bool(TRUE))
  /\ (last.fail = "expire" /\ RedisGet(RateKey(last.args[1], last.args[2])) = IntString(1)) =>
       last.out = Ret(Limit(TRUE, last.args[3]))
  /\ last.fail = "incr" => last.out = Ret(Limit(TRUE, last.args[3]))
  /\ last.fail \in {"info", "dbSize"} => last.out = Ret(StatsDown)
  /\ last.fail \in {"setEx", "del", "del2", "keys"} => last.out = Ret(Undefined)
  /\ (last.fail = "connect" /\ ~isOpen) =>
       /\ last.op \in Getters => last.out = Ret(Null)
       /\ last.op \in Mutators => last.out = Ret(Undefined)
       /\ last.op = "validateSession" => last.out = Ret(Bool(TRUE))
       /\ last.op = "checkRateLimit" => last.out = Ret(Limit(TRUE, last.args[3]))
       /\ last.op = "getCacheStats" => last.out = Ret(StatsDown)
  /\ (last.op \in Getters /\ KeyOf(last) \in DOMAIN store /\ store[KeyOf(last)] = Garbage) =>
       last.out = Ret(Null)

\* a get met an undecodable payload while the store answered
C2_Witness ==
  /\ reachable /\ isOpen /\ last.fail = "none"
  /\ last.op = "getCachedTasks" /\ TasksKey(last.args[1]) \in DOMAIN store
  /\ store[TasksKey(last.args[1])] = Garbage
  /\ last.out = Ret(Null)

SetterOf(op) ==
  CASE op = "getCachedUser" -> "setCachedUser"
    [] op = "getCachedTasks" -> "setCachedTasks"
    [] op = "getCachedTask" -> "setCachedTask"
    [] OTHER -> "none"

SetThenGet ==
  /\ last.op \in Setters /\ last'.op \in Getters
  /\ SetterOf(last'.op) = last.op /\ last'.args[1] = last.args[1]

\* C3 as stated: a set followed immediately by a get of the same id returns a
\* value deep-equal to the value set.
C3_RoundTripExact ==
  [][ SetThenGet => last'.out = Ret(last.args[2]) ]_vars

\* C3 as amended: the get returns the JSON round trip of the value set, which
\* is the value itself when it holds no Date (the empty list).
C3_RoundTripJSON ==
  [][ SetThenGet =>
        /\ last'.out = Ret(JSONParse(JSONStringify(last.args[2])))
        /\ last.args[2] = Arr(<<>>) => last'.out = Ret(last.args[2]) ]_vars

\* a get hit a cached task: its creation timestamp is a string, not a Date
C3_Witness ==
  /\ last.op = "getCachedTask" /\ last.out.val.t = "task"
  /\ last.out.val.createdAt = IsoStr(1)
  /\ store[TaskKey(last.args[1])] = JSONStringify(TaskRow(last.args[1], "a", "u1", 1))

Miss(k) == GetCached(k, "none") = Ret(Null)

\* C4: after an invalidate of an id returns, a get of that id returns absent,
\* and it keeps returning absent until a set of that id.
C4_InvalidateThenMiss ==
  [][ /\ \A u \in Users :
           /\ (last'.op = "invalidateUserCache" /\ last'.args[1] = u) => Miss(UserKey(u))'
           /\ (last'.op = "invalidateTasksCache" /\ last'.args[1] = u) => Miss(TasksKey(u))'
           /\ (last'.op = "invalidateTaskCache" /\ last'.args[2] = u) => Miss(TasksKey(u))'
      /\ \A id \in TaskIds :
           (last'.op = "invalidateTaskCache" /\ last'.args[1] = id) => Miss(TaskKey(id))'
      /\ \A k \in CacheKeys(Users, TaskIds) :
           (Miss(k) /\ ~Miss(k)') => (last'.op \in Setters /\ KeyOf(last') = k) ]_vars

\* an invalidated user entry, next to that user's cached list
C4_Witness ==
  /\ last.op = "invalidateUserCache"
  /\ UserKey(last.args[1]) \notin DOMAIN store
  /\ TasksKey(last.args[1]) \in DOMAIN store

\* C5: invalidateTaskCache(taskId, userId) removes task:{taskId} and
\* tasks:{userId} and leaves every other key, its value and its expiry as they were.
C5_InvalidateTaskFrame ==
  [][ last'.op = "invalidateTaskCache" =>
        LET gone == {TaskKey(last'.args[1]), TasksKey(last'.args[2])} IN
        /\ DOMAIN store' = DOMAIN store \ gone
        /\ DOMAIN ttl' = DOMAIN store'
        /\ \A k \in DOMAIN store' : store'[k] = store[k] /\ ttl'[k] = ttl[k] ]_vars

\* t1 of u1 was invalidated while keys of every other kind are present
C5_Witness ==
  /\ last.op = "invalidateTaskCache" /\ last.args = <<"t1", "u1">>
  /\ {TaskKey("t2"), TasksKey("u2"), UserKey("u1"), UserKey("u2"),
      SessionKey("u1", "1"), RateKey("u1", "e1")} \subseteq DOMAIN store
  /\ TaskKey("t1") \notin DOMAIN store /\ TasksKey("u1") \notin DOMAIN store

\* the request of slot s, running handler h, writes its cache entry in this step
Wrote(s, h) == At(s, h, "setCached") /\ IsIdle(s)'

\* C6: under any interleaving of two request handlers, a handler that writes a
\* user:{id}, tasks:{userId} or task:{taskId} entry writes the value the data
\* store holds for that entity at the moment of the write.
C6_WriteIsCurrent ==
  [][ \A s \in Slots :
        /\ Wrote(s, "GET /api/tasks") =>
             store'[TasksKey(req[s].user.userId)] =
               JSONStringify(FindMany(req[s].user.userId))
        /\ Wrote(s, "GET /api/tasks/[id]") =>
             store'[TaskKey(req[s].id)] = JSONStringify(FindTask(req[s].id))
        /\ Wrote(s, "GET /api/auth/me") =>
             store'[UserKey(req[s].user.userId)] =
               JSONStringify(FindUser(req[s].user.userId)) ]_vars

\* no request is in flight and tasks:{u1} holds a list that is not the data store's
C6_Witness ==
  /\ IsIdle(1) /\ IsIdle(2)
  /\ TasksKey("u1") \in DOMAIN store
  /\ store[TasksKey("u1")] # JSONStringify(FindMany("u1"))

Answered(ops, statuses) ==
  IsIdle(1) /\ last.op \in ops /\ last.out.val.status \in statuses
\* the task entries the cache holds for tasks of u
CachedTasksOf(u) ==
  {id \in TaskIds : TaskKey(id) \in DOMAIN store /\ store[TaskKey(id)].doc.userId = u}

\* C7: when POST /api/tasks, PATCH or DELETE /api/tasks/{id} has answered
\* success, the owner's tasks:{userId} key and the task:{taskId} key of the task
\* created, changed or deleted are absent; when the admin DELETE of a user has
\* answered success, no tasks:{userId} entry that lists a task and no
\* task:{taskId} entry of a task of that user is left.
C7_MutationInvalidates ==
  /\ Answered({"POST /api/tasks"}, {201}) =>
       /\ TasksKey(last.args[1]) \notin DOMAIN store
       /\ TaskKey(last.out.val.data.id) \notin DOMAIN store
  /\ Answered({"PATCH /api/tasks/[id]", "DELETE /api/tasks/[id]"}, {200}) =>
       /\ TasksKey(last.args[1]) \notin DOMAIN store
       /\ TaskKey(last.args[2]) \notin DOMAIN store
  /\ Answered({"DELETE /api/admin/users/[id]"}, {200}) =>
       /\ TasksKey(last.args[2]) \in DOMAIN store =>
            store[TasksKey(last.args[2])].doc = Arr(<<>>)
       /\ CachedTasksOf(last.args[2]) = {}

\* u1 was deleted by the admin and the cache still lists a task of u1
C7_Witness ==
  /\ Answered({"DELETE /api/admin/users/[id]"}, {200}) /\ last.args[2] = "u1"
  /\ "u1" \notin DOMAIN users
  /\ TasksKey("u1") \in DOMAIN store /\ Len(store[TasksKey("u1")].doc.a) = 1

\* the last answer is the 201 of a POST /api/tasks by u
Created(u) == last.op = "POST /api/tasks" /\ last.args[1] = u /\ last.out.val.status = 201

\* C8: requests handled one after another: a GET /api/tasks of u that misses
\* stores the list under tasks:{u} and answers it with cached=false; a POST
\* /api/tasks of u that creates removes tasks:{u}; the GET /api/tasks of u that
\* follows the POST is not a hit, and its list holds the created task.
C8_MissPostMiss ==
  [][ \A u \in Users :
        LET k == TasksKey(u)
            get == At(1, "GET /api/tasks", "setCached") /\ req[1].user.userId = u
            post == At(1, "POST /api/tasks", "invalidate") /\ req[1].user.userId = u
        IN
        /\ (get /\ IsIdle(1)') =>
             /\ store'[k] = JSONStringify(FindMany(u)) /\ ttl'[k] = CACHE_TTL_TASKS
             /\ last'.op = "GET /api/tasks"
             /\ last'.out.val = Response(200, FindMany(u), "false")
        /\ (post /\ IsIdle(1)') => (k \notin DOMAIN store' /\ Created(u)')
        /\ (IsIdle(1) /\ Created(u) /\ IsIdle(1)') =>
             ~(last'.op = "GET /api/tasks" /\ last'.args[1] = u)
        /\ (get /\ Created(u) /\ IsIdle(1)') =>
             /\ last'.out.val.cached = "false"
             /\ \E i \in DOMAIN last'.out.val.data.a :
                  last'.out.val.data.a[i] = last.out.val.data ]_vars

\* the GET of u1 that follows u1's second POST has missed and read both tasks
C8_Witness ==
  /\ At(1, "GET /api/tasks", "setCached") /\ req[1].user.userId = "u1"
  /\ Created("u1")
  /\ Len(req[1].loc.a) = 2 /\ ToJSON(req[1].loc.a[1]) = last.out.val.data

Valid(u, k) == ValidateSession(u, k, "none") = Ret(Bool(TRUE))
Invalid(u, k) == ValidateSession(u, k, "none") = Ret(Bool(FALSE))

\* C9: validateSession is true after storeSession of the pair, stored before or
\* not, false after revokeSession of the pair, and a pair becomes valid only by
\* a storeSession of that pair.
C9_StoreValidateRevoke ==
  [][ \A u \in Users, k \in TokenIds :
        /\ (last'.op = "storeSession" /\ last'.args[1] = u /\ last'.args[2] = k) =>
             Valid(u, k)' /\ store'[SessionKey(u, k)] = RawString(last'.args[3])
        /\ (last'.op = "revokeSession" /\ last'.args[1] = u /\ last'.args[2] = k) =>
             Invalid(u, k)'
        /\ (Invalid(u, k) /\ ~Invalid(u, k)') =>
             (last'.op = "storeSession" /\ last'.args[1] = u /\ last'.args[2] = k)
        /\ (Valid(u, k) /\ ~Valid(u, k)') =>
             (last'.op \in {"revokeSession", "revokeAllUserSessions"} /\ last'.args[1] = u) ]_vars

\* one token of a user was revoked while the other token of that user is valid
C9_Witness ==
  /\ last.op = "revokeSession" /\ last.args = <<"u1", "1">>
  /\ Invalid("u1", "1") /\ Valid("u1", "2")

\* C10: after revokeAllUserSessions(u) no session of u is valid, whatever its
\* token, and every session of another user is as it was.
C10_RevokeAll ==
  [][ \A u \in Users :
        (last'.op = "revokeAllUserSessions" /\ last'.args[1] = u) =>
          /\ \A k \in TokenIds : Invalid(u, k)'
          /\ \A v \in Users \ {u}, k \in TokenIds :
               /\ Valid(v, k)' = Valid(v, k)
               /\ SessionKey(v, k) \in DOMAIN store =>
                    /\ store'[SessionKey(v, k)] = store[SessionKey(v, k)]
                    /\ ttl'[SessionKey(v, k)] = ttl[SessionKey(v, k)] ]_vars

\* every session of u1 is gone and both sessions of u2 are still valid
C10_Witness ==
  /\ last.op = "revokeAllUserSessions" /\ last.args = <<"u1">>
  /\ \A k \in TokenIds : Invalid("u1", k)
  /\ \A k \in TokenIds : Valid("u2", k)

----------------------------------------------------------------------------
(* Properties of the middleware and of the session registry under it *)

\* the registry holds no session of u
Revoked(u) == RedisKeys(SessionPattern(u)) = {}

\* the admin's password reset for u, or a PATCH that left u with another role
\* than the one u's token carries, has just answered success, and u has no
\* session: u has not logged in since
ChangeDone(u) ==
  /\ IsIdle(1)
  /\ last.op \in {"POST /api/admin/users/[id]/password", "PATCH /api/admin/users/[id]"}
  /\ last.args[2] = u /\ last.out.val.status = 200
  /\ last.op = "PATCH /api/admin/users/[id]" =>
       (u \in DOMAIN users /\ users[u].role # Payload(u).role)
  /\ Revoked(u)

\* C11: once an admin password reset or role change for u has answered success,
\* a request carrying the token u was issued before is not handled: it is
\* answered 401 (or 403) by requireAuth/requireAdmin.
C11_OldTokenRejected ==
  [][ \A u \in Users :
        ChangeDone(u) =>
          /\ ~IsIdle(1)' => req'[1].user.userId # u
          /\ (IsIdle(1)' /\ last'.op = "GET /api/auth/me" /\ last'.args[1] = u) =>
               last'.out.val.status = 401 ]_vars

\* u1 was made ADMIN, holds no session, and GET /api/auth/me with the token
\* that says USER was answered 200 with the new role
C11_Witness ==
  /\ IsIdle(1) /\ last.op = "GET /api/auth/me" /\ last.args[1] = "u1"
  /\ last.out.val.status = 200 /\ last.out.val.data.role = "ADMIN"
  /\ Payload("u1").role = "USER" /\ Revoked("u1")

----------------------------------------------------------------------------
(* Properties of the rate limiter *)

\* the count the store holds for (u, e): the calls of the running window
Count(u, e) == IF RateKey(u, e) \in DOMAIN store THEN store[RateKey(u, e)].n ELSE 0

\* C12: with c calls counted in the running window, checkRateLimit(u, e, N) is
\* call k = c + 1 of the window: it returns allowed = (k <= N) and remaining =
\* max(0, N - k) and counts itself; the count is otherwise only dropped by the 60
\* seconds since the window's first call having passed, after which the next call
\* is call 1: allowed with remaining N - 1.
C12_KthCall ==
  [][ \A u \in FaultUsers, e \in Endpoints :
        LET key == RateKey(u, e)
            k == Count(u, e) + 1
            N == last'.args[3]
        IN
        /\ last'.op = "checkRateLimit" =>
             /\ last'.out = Ret(Limit(k <= N, IF N - k > 0 THEN N - k ELSE 0))
             /\ Count(u, e)' = k
             /\ k = 1 => ttl'[key] = 60
             /\ k > 1 => ttl'[key] = ttl[key]
        /\ last'.op = "elapse" =>
             /\ Count(u, e)' = IF Count(u, e) > 0 /\ ttl[key] > last'.args[1]
                               THEN Count(u, e) ELSE 0
             /\ Count(u, e)' > 0 => ttl'[key] = ttl[key] - last'.args[1] ]_vars

\* with N = 2 the third call of a window was refused with nothing remaining
C12_Witness ==
  /\ last.op = "checkRateLimit" /\ last.args = <<"u1", "e1", 2>>
  /\ last.out = Ret(Limit(FALSE, 0)) /\ Count("u1", "e1") = 3
  /\ ttl[RateKey("u1", "e1")] < 60

\* C13: a call that finds no counter leaves it with an expiry of 60 seconds, a
\* call that finds one leaves its expiry as it is, and every counter has an
\* expiry of at most 60 seconds: it is gone 60 seconds after the window's first call.
C13_WindowAnchored ==
  [][ \A u \in FaultUsers, e \in Endpoints :
        LET key == RateKey(u, e) IN
        /\ (last'.op = "checkRateLimit" /\ key \in DOMAIN store') =>
             ttl'[key] = IF key \in DOMAIN store THEN ttl[key] ELSE 60
        /\ key \in DOMAIN store' => ttl'[key] \in 1..60 ]_vars

\* 60 seconds have passed and the counter, left without an expiry, still counts
C13_Witness ==
  /\ last.op = "elapse" /\ last.args = <<60>>
  /\ Count("u1", "e1") = 3 /\ ttl[RateKey("u1", "e1")] = NoExpiry

----------------------------------------------------------------------------
(* Properties of the expiry of entries *)

\* the call c wrote key k
Written(c, k) ==
  \/ c.op \in Setters /\ KeyOf(c) = k
  \/ c.op = "storeSession" /\ SessionKey(c.args[1], c.args[2]) = k
\* a lookup of k finds nothing: the get returns null, validateSession false
Absent(k) == IF k[1] = "session" THEN Invalid(k[3], k[5]) ELSE Miss(k)

\* C14: a write leaves the entry present with its full lifetime (3600, 300, 600
\* or 604800 seconds); when d seconds pass an entry with more than d seconds
\* left stays, d seconds nearer to its end, and any other is absent, so that d
\* seconds after a write the entry is absent exactly if d is its lifetime or
\* more; a read changes neither the entry nor the time it has left.
C14_Expiry ==
  [][ \A k \in TtlKeys :
        /\ Written(last', k) => (~Absent(k)' /\ ttl'[k] = TtlOf(k))
        /\ last'.op = "elapse" =>
             LET d == last'.args[1] IN
             /\ (k \in DOMAIN store /\ ttl[k] > d) => (~Absent(k)' /\ ttl'[k] = ttl[k] - d)
             /\ (k \in DOMAIN store /\ ttl[k] <= d) => Absent(k)'
             /\ Written(last, k) => (Absent(k)' <=> d >= TtlOf(k))
        /\ last'.op \in Getters \cup {"validateSession"} =>
             /\ (k \in DOMAIN store') <=> (k \in DOMAIN store)
             /\ k \in DOMAIN store => (store'[k] = store[k] /\ ttl'[k] = ttl[k])
        /\ k \in DOMAIN store' => ttl'[k] \in 1..TtlOf(k) ]_vars

\* the list written last has just expired while the older task entry and the
\* session live on
C14_Witness ==
  /\ last.op = "elapse" /\ last.args = <<300>>
  /\ Absent(TasksKey("u1")) /\ ~Absent(TaskKey("t1")) /\ ~Absent(SessionKey("u1", "1"))
  /\ ttl[TaskKey("t1")] < 300

----------------------------------------------------------------------------
(* Properties of the connection *)

\* C15: ensureConnection does not throw and returns a boolean: false when the
\* connection attempt it made failed, true otherwise.
C15_EnsureBoolean ==
  last.op = "ensureConnection" =>
    /\ ~last.out.threw
    /\ last.out.val = Bool(last.fail # "connect")

\* the attempt of an ensureConnection failed, no connection exists, and the
\* call returned true
C15_Witness ==
  /\ last = Answer("connect", Ret(Bool(TRUE)))
  /\ ~isOpen /\ ~isConnected /\ ~reachable

Connecting == {s \in Slots : At(s, "ensureConnection", "connect")}

\* C16: with the store reachable, a connect attempt is started only on a handle
\* that is not open, it leaves the handle open, and the handle stays open: no
\* two attempts are ever in progress, and once one was started every later
\* call returns without another.
C16_ConnectOnce ==
  [][ /\ Cardinality(Connecting') <= 1
      /\ Connecting' \ Connecting # {} => (~isOpen /\ ~isConnected /\ Connecting = {})
      /\ isOpen => isOpen'
      /\ isConnected => (isConnected' /\ Connecting' \subseteq Connecting) ]_vars

\* a second caller came while the first attempt was in progress
C16_Witness ==
  /\ Connecting = {1} /\ IsIdle(2)
  /\ last = Answer("none", Ret(Bool(TRUE))) /\ isOpen /\ ~isConnected

\* C17: a call of ensureConnection returns without a connect attempt only when
\* the handle is open: a handle that was closed, or whose first attempt failed,
\* gets a new attempt.
C17_ReconnectWhenClosed ==
  [][ (last'.op = "ensureConnection" /\ req' = req) => isOpen ]_vars

\* the connection was established, the client closed, and a later
\* ensureConnection returned true without an attempt
C17_Witness ==
  /\ last = Answer("none", Ret(Bool(TRUE)))
  /\ isConnected /\ ~isOpen /\ Connecting = {}

----------------------------------------------------------------------------
(* Properties of the cache layer under single failures *)

\* C18: a get of a key whose stored payload cannot be parsed returns null, as a
\* get of an absent key does, does not throw, and leaves the entry and its
\* expiry as they were.
C18_CorruptIsMiss ==
  [][ \A k \in CacheKeys(FaultUsers, FaultTaskIds) :
        (last'.op \in Getters /\ KeyOf(last') = k /\ last'.fail = "none"
         /\ k \in DOMAIN store /\ ParseThrows(store[k])) =>
          /\ last'.out = Ret(Null)
          /\ store' = store /\ ttl' = ttl ]_vars

\* getCachedTask met an undecodable payload, which is still there
C18_Witness ==
  /\ last.op = "getCachedTask" /\ last.fail = "none" /\ last.out = Ret(Null)
  /\ reachable /\ isOpen
  /\ TaskKey(last.args[1]) \in DOMAIN store /\ ParseThrows(store[TaskKey(last.args[1])])

\* the value and expiry of key k are the same before and after the step
Kept(k) == k \in DOMAIN store' /\ store'[k] = store[k] /\ ttl'[k] = ttl[k]

\* C19: when exactly one of the two deletes of invalidateTaskCache fails, the
\* key of the other delete is removed, the key of the failing one keeps its
\* value, and the call returns normally.
C19_PartialInvalidate ==
  [][ \A id \in FaultTaskIds, u \in FaultUsers :
        (last'.op = "invalidateTaskCache" /\ last'.args = <<id, u>>
         /\ reachable /\ isOpen' /\ {TaskKey(id), TasksKey(u)} \subseteq DOMAIN store) =>
          /\ last'.out = Ret(Undefined)
          /\ last'.fail = "del" => (Kept(TaskKey(id)) /\ TasksKey(u) \notin DOMAIN store')
          /\ last'.fail = "del2" => (Kept(TasksKey(u)) /\ TaskKey(id) \notin DOMAIN store') ]_vars

\* the delete of task:{t1} failed: the entry is there, the list of u1 is gone
C19_Witness ==
  /\ last.op = "invalidateTaskCache" /\ last.args = <<"t1", "u1">> /\ last.fail = "del"
  /\ reachable /\ isOpen
  /\ TaskKey("t1") \in DOMAIN store /\ TasksKey("u1") \notin DOMAIN store
  /\ UserKey("u1") \in DOMAIN store

----------------------------------------------------------------------------
(* Properties of stale entries *)

\* tasks:{u} holds a list that is not the data store's
Stale(u) ==
  TasksKey(u) \in DOMAIN store /\ store[TasksKey(u)] # JSONStringify(FindMany(u))
\* time passes in this step
Elapsed == last'.op = "elapse" /\ req' = req /\ ttl' # ttl
\* a GET /api/tasks is answered from the cache in this step
Hit == last'.op = "GET /api/tasks" /\ last'.out.val.cached = "true" /\ req' = req

----------------------------------------------------------------------------
(* The handlers without the cache: each reads and writes the data store     *)
(* directly and answers. Run to completion on the data store as it is, a    *)
(* handler gives a status, the data of the answer, and the task table and   *)
(* the number of rows created that it leaves.                               *)

DirectOut(status, data, t, c) ==
  [tasks |-> t, created |-> c, status |-> status, data |-> ToJSON(data)]

\* GET /api/tasks
Direct_GetTasks(u) == DirectOut(200, FindMany(u), tasks, created)
\* POST /api/tasks
Direct_PostTasks(u, title) ==
  LET id == TaskIdSeq[created + 1]
      row == TaskRow(id, title, u, created + 1) IN
  IF title = "" THEN DirectOut(400, Str("Title is required"), tasks, created)
  ELSE IF u \notin DOMAIN users
  THEN DirectOut(500, Str("Internal server error"), tasks, created)
  ELSE DirectOut(201, row, Put(tasks, id, row), created + 1)
\* GET /api/tasks/[id]
Direct_GetTask(u, id) ==
  LET row == FindTask(id) IN
  IF ~JsTruthy(row) THEN DirectOut(404, Str("Task not found"), tasks, created)
  ELSE IF row.userId # u THEN DirectOut(403, Str("Unauthorized"), tasks, created)
  ELSE DirectOut(200, row, tasks, created)
\* PATCH /api/tasks/[id]
Direct_PatchTask(u, id, title) ==
  LET row == FindTask(id) IN
  IF ~JsTruthy(row) THEN DirectOut(404, Str("Task not found"), tasks, created)
  ELSE IF row.userId # u THEN DirectOut(403, Str("Unauthorized"), tasks, created)
  ELSE DirectOut(200, [row EXCEPT !.title = title],
                 [tasks EXCEPT ![id].title = title], created)
\* DELETE /api/tasks/[id]
Direct_DeleteTask(u, id) ==
  LET row == FindTask(id) IN
  IF ~JsTruthy(row) THEN DirectOut(404, Str("Task not found"), tasks, created)
  ELSE IF row.userId # u THEN DirectOut(403, Str("Unauthorized"), tasks, created)
  ELSE DirectOut(200, Str("Task deleted successfully"), Drop(tasks, {id}), created)
\* GET /api/auth/me
Direct_GetMe(u) ==
  LET row == FindUser(u) IN
  IF ~JsTruthy(row) THEN DirectOut(404, Str("User not found"), tasks, created)
  ELSE DirectOut(200, row, tasks, created)

Direct(h, u, id, title) ==
  CASE h = "GET /api/tasks" -> Direct_GetTasks(u)
    [] h = "POST /api/tasks" -> Direct_PostTasks(u, title)
    [] h = "GET /api/tasks/[id]" -> Direct_GetTask(u, id)
    [] h = "PATCH /api/tasks/[id]" -> Direct_PatchTask(u, id, title)
    [] h = "DELETE /api/tasks/[id]" -> Direct_DeleteTask(u, id)
    [] h = "GET /api/auth/me" -> Direct_GetMe(u)

----------------------------------------------------------------------------
(* SpecDown: the cached handlers, one request at a time; the store may stop *)
(* answering between two requests and then stays unreachable.               *)

NextDown ==
  \/ \E u \in FaultUsers : GetTasks_cache(1, u)
  \/ GetTasks_findMany(1)
  \/ GetTasks_setCached(1)
  \/ \E u \in Users, title \in {"", "a"} : PostTasks_create(1, u, title)
  \/ PostTasks_invalidate(1)
  \/ \E u \in Users, id \in TaskIds : GetTask_cache(1, u, id)
  \/ GetTask_findUnique(1)
  \/ GetTask_setCached(1)
  \/ \E u \in Users, id \in TaskIds : PatchTask_findUnique(1, u, id, "b")
  \/ PatchTask_update(1)
  \/ PatchTask_invalidate(1)
  \/ \E u \in Users, id \in FaultTaskIds : DeleteTask_findUnique(1, u, id)
  \/ DeleteTask_delete(1)
  \/ DeleteTask_invalidate(1)
  \/ \E u \in FaultUsers : GetMe_cache(1, u)
  \/ GetMe_findUnique(1)
  \/ GetMe_setCached(1)
  \/ IsIdle(1) /\ StoreDown

SpecDown == Init /\ [][NextDown]_vars

----------------------------------------------------------------------------
(* Properties of the handlers with the store unreachable *)

\* the data store write of the request in slot 1 is done
Committed == ~IsIdle(1) /\ req[1].pc = "invalidate"
\* the data a request past its data store write answers with
Promised(r) ==
  IF r.h = "DELETE /api/tasks/[id]" THEN ToJSON(Str("Task deleted successfully"))
  ELSE ToJSON(r.loc)
Success(h) == IF h = "POST /api/tasks" THEN 201 ELSE 200

----------------------------------------------------------------------------
(* revokeAllUserSessions as its two awaited commands: keys, then del of the *)
(* keys it was given.                                                        *)

Returned(op, args) == [fail |-> "none", op |-> op, args |-> args, out |-> Ret(Undefined)]

\* mutant: the delete goes by the pattern as it matches now
KeysToDelete_Fresh(s) == RedisKeys(SessionPattern(req[s].id))

\* redisClient.del(keys)
KeysToDelete(s) == req[s].loc

revokeAll_keys(s, u) ==
  LET keys == RedisKeys(SessionPattern(u)) IN
  /\ IsIdle(s)
  /\ Connect("none") /\ UNCHANGED <<Cache, Db>>
  /\ IF ~CmdOk("keys", "none") \/ keys = {}
     THEN last' = Returned("revokeAllUserSessions", <<u>>) /\ UNCHANGED req
     ELSE /\ req' = [req EXCEPT ![s] = [h |-> "revokeAllUserSessions", id |-> u,
                                        pc |-> "del", loc |-> keys]]
          /\ UNCHANGED last
revokeAll_del(s) ==
  LET c == Del(Same, KeysToDelete(s), "del", "none") IN
  /\ At(s, "revokeAllUserSessions", "del")
  /\ Connect("none") /\ Apply(c) /\ UNCHANGED Db
  /\ req' = [req EXCEPT ![s] = Idle]
  /\ last' = Returned("revokeAllUserSessions", <<req[s].id>>)

----------------------------------------------------------------------------
(* SpecRevoke: logins, validations and revocations of two users, the        *)
(* commands of two revokeAllUserSessions calls interleaved with them, the   *)
(* store reachable.                                                          *)

NextRevoke ==
  \/ \E u \in Users, k \in TokenIds : storeSession(u, k, "jwtA", "none")
  \/ \E u \in Users, k \in TokenIds : validateSession(u, k, "none")
  \/ \E s \in Slots, u \in Users : revokeAll_keys(s, u)
  \/ \E s \in Slots : revokeAll_del(s)

SpecRevoke == InitReach /\ [][NextRevoke]_vars

----------------------------------------------------------------------------
(* Properties of the two-step revocation *)

\* the revokeAllUserSessions call of slot s deletes in this step
Deleting(s) == At(s, "revokeAllUserSessions", "del") /\ IsIdle(s)'

\* C22: the enumeration leaves the store as it is and hands the delete the
\* session keys of u present at that moment; the delete removes exactly those:
\* every enumerated session is gone when the call returns, and every other
\* key, a session of u stored since the enumeration included, is as it was and
\* still valid.
C22_DeletesEnumerated ==
  [][ \A s \in Slots :
        /\ (IsIdle(s) /\ At(s, "revokeAllUserSessions", "del")') =>
             /\ req'[s].loc = RedisKeys(SessionPattern(req'[s].id))
             /\ store' = store /\ ttl' = ttl
        /\ Deleting(s) =>
             /\ last' = Returned("revokeAllUserSessions", <<req[s].id>>)
             /\ \A k \in req[s].loc : k \notin DOMAIN store'
             /\ \A k \in DOMAIN store \ req[s].loc : Kept(k)
             /\ \A u \in Users, k \in TokenIds :
                  (req[s].id = u /\ SessionKey(u, k) \notin req[s].loc /\ Valid(u, k)) =>
                    Valid(u, k)' ]_vars

\* revokeAllUserSessions(u1) has returned: the session it enumerated is gone
\* and the session stored before its delete is valid
C22_Witness ==
  /\ IsIdle(1) /\ IsIdle(2)
  /\ last = Returned("revokeAllUserSessions", <<"u1">>)
  /\ Invalid("u1", "1") /\ Valid("u1", "2")

----------------------------------------------------------------------------
(* GET /api/health. dbOk: whether the data store answers its SELECT 1.       *)

HealthBody(status, database, redis) ==
  [t |-> "health", status |-> status, database |-> database, redis |-> redis]

\* try { await connectRedis(); await redisClient.ping() } catch { ... }
RedisCheck(fail) ==
  IF ConnectRedis(fail).threw THEN Throw
  ELSE IF ~CmdOk("ping", fail) THEN Throw
  ELSE Ret(Undefined)

\* mutant: an unhealthy store marks the service degraded as well
GetHealth_RedisDegrades(dbOk, fail) ==
  LET ok == dbOk /\ ~RedisCheck(fail).threw IN
  Response(IF ok THEN 200 ELSE 503,
           HealthBody(IF ok THEN "ok" ELSE "degraded",
                      IF dbOk THEN "healthy" ELSE "unhealthy",
                      IF RedisCheck(fail).threw THEN "unhealthy" ELSE "healthy"),
           "-")

GetHealth(dbOk, fail) ==
  LET status == IF dbOk THEN "ok" ELSE "degraded" IN
  Response(IF status = "ok" THEN 200 ELSE 503,
           HealthBody(status,
                      IF dbOk THEN "healthy" ELSE "unhealthy",
                      IF RedisCheck(fail).threw THEN "unhealthy" ELSE "healthy"),
           "-")

getHealth(dbOk, fail) ==
  /\ Connect(fail) /\ UNCHANGED <<store, ttl>>
  /\ Called("GET /api/health", <<dbOk>>, fail, Ret(GetHealth(dbOk, fail)))

----------------------------------------------------------------------------
(* SpecHealth: health checks between cache calls, the store going down and  *)
(* up, the client closing, the data store answering or not.                  *)

NextHealth ==
  \/ \E dbOk \in BOOLEAN, f \in {"none", "connect", "ping"} : getHealth(dbOk, f)
  \/ \E u \in FaultUsers, f \in {"none", "connect", "get"} : getCachedUser(u, f)
  \/ \E u \in FaultUsers : \E v \in UserValues(u) : setCachedUser(u, v, "none")
  \/ \E u \in FaultUsers : invalidateUserCache(u, "none")
  \/ \E u \in FaultUsers : getCachedTasks(u, "none")
  \/ \E u \in FaultUsers : setCachedTasks(u, Arr(<<>>), "none")
  \/ StoreDown
  \/ StoreUp
  \/ ClientClosed

SpecHealth == Init /\ [][NextHealth]_vars

----------------------------------------------------------------------------
(* Properties of the health endpoint *)

----------------------------------------------------------------------------
(* Properties of the cache introspection *)

\* C24: getCacheStats leaves every key, value and expiry as it was and does
\* not throw; it returns connected = false when the store is unreachable or
\* its info or its dbSize query fails, and connected = true, with the number
\* of keys, only when the store is reachable and neither query failed.
C24_StatsReadOnly ==
  [][ last'.op = "getCacheStats" =>
        LET res == last'.out.val IN
        /\ store' = store /\ ttl' = ttl
        /\ ~last'.out.threw /\ res.t = "stats"
        /\ (~reachable \/ last'.fail \in {"info", "dbSize"}) => res.connected = FALSE
        /\ res.connected = TRUE =>
             /\ reachable /\ isOpen' /\ last'.fail \notin {"info", "dbSize"}
             /\ res.dbSize = Cardinality(DOMAIN store) ]_vars

\* the size query failed on a reachable store that holds entries
C24_Witness ==
  /\ last.op = "getCacheStats" /\ last.fail = "dbSize" /\ reachable /\ isOpen
  /\ last.out = Ret(StatsDown) /\ Cardinality(DOMAIN store) >= 2

----------------------------------------------------------------------------
(* SpecOwn: the task handlers of two users, the store reachable: a request  *)
(* that reads in flight next to another that reads, creates, changes or     *)
(* deletes.                                                                  *)

NextOwn ==
  \/ \E s \in Slots, u \in Users : GetTasks_cache(s, u)
  \/ \E s \in Slots : GetTasks_findMany(s)
  \/ \E s \in Slots : GetTasks_setCached(s)
  \/ \E u \in Users : PostTasks_create(1, u, "a")
  \/ PostTasks_invalidate(1)
  \/ \E s \in Slots, u \in Users, id \in TaskIds : GetTask_cache(s, u, id)
  \/ \E s \in Slots : GetTask_findUnique(s)
  \/ \E s \in Slots : GetTask_setCached(s)
  \/ \E u \in Users, id \in FaultTaskIds : PatchTask_findUnique(1, u, id, "b")
  \/ PatchTask_update(1)
  \/ PatchTask_invalidate(1)
  \/ \E u \in Users, id \in FaultTaskIds : DeleteTask_findUnique(1, u, id)
  \/ DeleteTask_delete(1)
  \/ DeleteTask_invalidate(1)

SpecOwn == InitReach /\ [][NextOwn]_vars

----------------------------------------------------------------------------
(* Properties of task ownership *)

TaskHandlers ==
  {"GET /api/tasks", "POST /api/tasks", "GET /api/tasks/[id]",
   "PATCH /api/tasks/[id]", "DELETE /api/tasks/[id]"}
\* the tasks in the data of an answer or of a cache entry
TasksIn(data) ==
  CASE data.t = "task" -> {data}
    [] data.t = "array" -> {data.a[i] : i \in DOMAIN data.a}
    [] OTHER -> {}
\* a request is answered in the step it arrives in
AnsweredAtOnce(h) == req' = req /\ last'.op = h

\* C25: an answer of a task handler holds only tasks of the caller; GET
\* /api/tasks/{id} finds a cached task of another user and answers 403 without
\* data, and answers a cached task only to its owner; task:{id} is written only
\* by a request of the task's owner, tasks:{u} only with tasks of u, and a
\* cached GET /api/tasks answers the list under the caller's own key.
C25_OwnTasksOnly ==
  [][ /\ last'.op \in TaskHandlers =>
           \A x \in TasksIn(last'.out.val.data) : x.userId = last'.args[1]
      /\ AnsweredAtOnce("GET /api/tasks/[id]") =>
           LET k == TaskKey(last'.args[2]) IN
           /\ k \in DOMAIN store
           /\ IF store[k].doc.userId # last'.args[1]
              THEN last'.out.val = Response(403, Str("Unauthorized"), "-")
              ELSE last'.out.val = Response(200, store[k].doc, "true")
      /\ AnsweredAtOnce("GET /api/tasks") =>
           /\ TasksKey(last'.args[1]) \in DOMAIN store
           /\ last'.out.val = Response(200, store[TasksKey(last'.args[1])].doc, "true")
      /\ \A s \in Slots :
           Wrote(s, "GET /api/tasks/[id]") =>
             /\ req[s].loc.userId = req[s].user.userId /\ req[s].loc.id = req[s].id
             /\ store'[TaskKey(req[s].id)] = JSONStringify(req[s].loc)
      /\ \A id \in TaskIds :
           (TaskKey(id) \in DOMAIN store' /\
            (TaskKey(id) \notin DOMAIN store \/ store'[TaskKey(id)] # store[TaskKey(id)])) =>
             \E s \in Slots : Wrote(s, "GET /api/tasks/[id]") /\ req[s].id = id
      /\ \A u \in Users :
           TasksKey(u) \in DOMAIN store' =>
             \A x \in TasksIn(store'[TasksKey(u)].doc) : x.userId = u ]_vars

\* u2 asked for the task of u1 while it was cached, and was answered 403
C25_Witness ==
  /\ IsIdle(1) /\ IsIdle(2)
  /\ last.op = "GET /api/tasks/[id]" /\ last.args[1] = "u2"
  /\ TaskKey(last.args[2]) \in DOMAIN store
  /\ store[TaskKey(last.args[2])].doc.userId = "u1"
  /\ last.out.val = Response(403, Str("Unauthorized"), "-")

----------------------------------------------------------------------------
(* SpecMut: every mutating handler, with the reads and logins that fill the *)
(* cache, in slot 1; in slot 2 a DELETE of the task or of the user that     *)
(* makes a data store write of slot 1 fail. The store is reachable.         *)

NextMut ==
  \/ \E u \in ConcUsers : GetTasks_cache(1, u)
  \/ GetTasks_findMany(1)
  \/ GetTasks_setCached(1)
  \/ \E u \in ConcUsers, id \in ConcTaskIds : GetTask_cache(1, u, id)
  \/ GetTask_findUnique(1)
  \/ GetTask_setCached(1)
  \/ \E u \in ConcUsers : GetMe_cache(1, u)
  \/ GetMe_findUnique(1)
  \/ GetMe_setCached(1)
  \/ \E u \in ConcUsers, k \in FaultTokenIds : IsIdle(1) /\ storeSession(u, k, "jwtA", "none")
  \/ \E u \in ConcUsers, title \in {"", "a"} : PostTasks_create(1, u, title)
  \/ PostTasks_invalidate(1)
  \/ \E u \in Users, id \in ConcTaskIds : PatchTask_findUnique(1, u, id, "b")
  \/ PatchTask_update(1)
  \/ PatchTask_invalidate(1)
  \/ \E s \in Slots, u \in Users, id \in ConcTaskIds : DeleteTask_findUnique(s, u, id)
  \/ \E s \in Slots : DeleteTask_delete(s)
  \/ \E s \in Slots : DeleteTask_invalidate(s)
  \/ \E a \in Admins \cup ConcUsers, id \in Admins \cup ConcUsers, role \in {"USER", "ADMIN"} :
       PatchUser_findUnique(1, a, id, role, "undef")
  \/ PatchUser_update(1)
  \/ PatchUser_invalidateUser(1)
  \/ PatchUser_revoke(1)
  \/ \E s \in Slots, a \in Admins \cup ConcUsers, id \in Admins \cup ConcUsers :
       DeleteUser_findUnique(s, a, id)
  \/ \E s \in Slots : DeleteUser_delete(s)
  \/ \E s \in Slots : DeleteUser_invalidateUser(s)
  \/ \E s \in Slots : DeleteUser_revoke(s)
  \/ \E a \in Admins, id \in ConcUsers, i \in DOMAIN Passwords :
       ResetPassword_findUnique(1, a, id, Passwords[i])
  \/ ResetPassword_update(1)
  \/ ResetPassword_revoke(1)

SpecMut == InitReach /\ [][NextMut]_vars

----------------------------------------------------------------------------
(* Properties of the mutating handlers *)

MutatingHandlers ==
  {"POST /api/tasks", "PATCH /api/tasks/[id]", "DELETE /api/tasks/[id]",
   "PATCH /api/admin/users/[id]", "DELETE /api/admin/users/[id]",
   "POST /api/admin/users/[id]/password"}
\* the positions of a request whose data store write is done
AfterWrite == {"invalidate", "invalidateUser", "revoke"}
\* the request of slot s, a mutating one, takes this step
MutStep(s) ==
  /\ req'[s] # req[s]
  /\ (IF IsIdle(s) THEN req'[s].h ELSE req[s].h) \in MutatingHandlers
\* a mutating request is answered in the step it arrives in
MutAnswered == req' = req /\ last'.op \in MutatingHandlers
\* the row the request r writes is in the data store
RowThere(r) ==
  IF r.h \in {"PATCH /api/tasks/[id]", "DELETE /api/tasks/[id]"} THEN r.id \in DOMAIN tasks
  ELSE IF r.h = "POST /api/tasks" THEN r.user.userId \in DOMAIN users
  ELSE r.id \in DOMAIN users

\* C26: a step of a mutating handler writes no value into the store: every
\* key left is as it was; it deletes keys only when the request's data store
\* write is done, a request gets there only by a write that found its row, and
\* is then answered 200 or 201; an answer 400, 403, 404, or 500 after a failed
\* write, comes from a request that has changed no cache or session key.
C26_MutatorsOnlyDelete ==
  [][ /\ MutAnswered =>
           /\ store' = store /\ ttl' = ttl
           /\ last'.out.val.status \in {400, 403, 404, 500}
      /\ \A s \in Slots :
           MutStep(s) =>
             /\ \A k \in DOMAIN store' : k \in DOMAIN store /\ Kept(k)
             /\ (IsIdle(s) \/ req[s].pc \notin AfterWrite) =>
                  /\ store' = store /\ ttl' = ttl
                  /\ IsIdle(s)' => last'.out.val.status \in {400, 403, 404, 500}
                  /\ (~IsIdle(s)' /\ req'[s].pc \in AfterWrite) =>
                       RowThere(req'[s])
             /\ (~IsIdle(s) /\ req[s].pc \in AfterWrite /\ IsIdle(s)') =>
                  last'.out.val.status \in {200, 201} ]_vars

\* the row was deleted under a PATCH /api/tasks/{id}: it is answered 500, the
\* task and the list are still cached and the session is still there
C26_Witness ==
  /\ IsIdle(1) /\ last.op = "PATCH /api/tasks/[id]" /\ last.out.val.status = 500
  /\ {TaskKey("t1"), TasksKey("u1"), SessionKey("u1", "1")} \subseteq DOMAIN store

----------------------------------------------------------------------------
(* SpecCoherent: GET/POST /api/tasks, GET/PATCH/DELETE /api/tasks/{id}, GET *)
(* /api/auth/me and the admin PATCH of a user, one request at a time, the   *)
(* store reachable, no entry expiring.                                       *)

NextCoherent ==
  \/ \E u \in Users : GetTasks_cache(1, u)
  \/ GetTasks_findMany(1)
  \/ GetTasks_setCached(1)
  \/ \E u \in Users : PostTasks_create(1, u, "a")
  \/ PostTasks_invalidate(1)
  \/ \E u \in Users, id \in TaskIds : GetTask_cache(1, u, id)
  \/ GetTask_findUnique(1)
  \/ GetTask_setCached(1)
  \/ \E u \in Users, id \in TaskIds : PatchTask_findUnique(1, u, id, "b")
  \/ PatchTask_update(1)
  \/ PatchTask_invalidate(1)
  \/ \E u \in Users, id \in TaskIds : DeleteTask_findUnique(1, u, id)
  \/ DeleteTask_delete(1)
  \/ DeleteTask_invalidate(1)
  \/ \E u \in FaultUsers : GetMe_cache(1, u)
  \/ GetMe_findUnique(1)
  \/ GetMe_setCached(1)
  \/ \E a \in Admins, id \in FaultUsers, role \in {"undef", "ADMIN"} :
       PatchUser_findUnique(1, a, id, role, IF role = "undef" THEN "n2" ELSE "undef")
  \/ PatchUser_update(1)
  \/ PatchUser_invalidateUser(1)
  \/ PatchUser_revoke(1)

SpecCoherent == InitReach /\ [][NextCoherent]_vars

----------------------------------------------------------------------------
(* Properties of the cache between requests *)

\* what a read of the data store gives for the entity of a GET handler's request
DbRead(h, u, id) ==
  CASE h = "GET /api/tasks" -> FindMany(u)
    [] h = "GET /api/tasks/[id]" -> FindTask(id)
    [] h = "GET /api/auth/me" -> FindUser(u)

\* C27: between requests, every user:{id}, tasks:{userId} and task:{taskId}
\* entry in the cache is the JSON text of what the data store holds for that
\* entity now, and the data of a GET answered from the cache is the data a
\* read of the data store gives.
C27_CacheCoherent ==
  IsIdle(1) =>
    /\ \A u \in AllUsers :
         /\ UserKey(u) \in DOMAIN store => store[UserKey(u)] = JSONStringify(FindUser(u))
         /\ TasksKey(u) \in DOMAIN store => store[TasksKey(u)] = JSONStringify(FindMany(u))
    /\ \A id \in TaskIds :
         TaskKey(id) \in DOMAIN store => store[TaskKey(id)] = JSONStringify(FindTask(id))
    /\ (last.op \in {"GET /api/tasks", "GET /api/tasks/[id]", "GET /api/auth/me"}
        /\ last.out.val.cached = "true") =>
         last.out.val.data = ToJSON(DbRead(last.op, last.args[1], last.args[2]))

\* u1 was renamed and the task retitled after both had been cached; they were
\* read again, and the task is now answered from the cache with its new title
C27_Witness ==
  /\ IsIdle(1)
  /\ last.op = "GET /api/tasks/[id]" /\ last.out.val.cached = "true"
  /\ last.out.val.data.title = "b"
  /\ UserKey("u1") \in DOMAIN store /\ store[UserKey("u1")].doc.name = Str("n2")
  /\ TasksKey("u1") \in DOMAIN store /\ Len(store[TasksKey("u1")].doc.a) = 2

----------------------------------------------------------------------------
(* checkRateLimit as its awaited commands: incr, and for the call that      *)
(* created the counter, expire.                                              *)

\* mutant: one request too many is allowed
Allowed_OneMore(current, maxRequests) == current <= maxRequests + 1

\* allowed: current <= maxRequests
Allowed(current, maxRequests) == current <= maxRequests

RateResult(u, e, n, fail, v) ==
  [fail |-> fail, op |-> "checkRateLimit", args |-> <<u, e, n>>, out |-> Ret(v)]

rate_incr(s, u, e, n, fail) ==
  LET key == RateKey(u, e)
      current == RedisIncr(key) IN
  /\ IsIdle(s)
  /\ Connect(fail) /\ UNCHANGED Db
  /\ IF ~EnsureConnection(fail) \/ ~CmdOk("incr", fail)
     THEN /\ UNCHANGED <<Cache, req>>
          /\ last' = RateResult(u, e, n, fail, Limit(TRUE, n))
     ELSE /\ store' = Put(store, key, IntString(current))
          /\ ttl' = (IF key \in DOMAIN ttl THEN ttl ELSE Put(ttl, key, NoExpiry))
          /\ IF current = 1
             THEN /\ req' = [req EXCEPT ![s] = [h |-> "checkRateLimit", id |-> e,
                                                user |-> [userId |-> u],
                                                pc |-> "expire", loc |-> n]]
                  /\ UNCHANGED last
             ELSE /\ UNCHANGED req
                  /\ last' = RateResult(u, e, n, fail,
                                        Limit(Allowed(current, n), Max(0, n - current)))
\* the expire of a key that is gone changes nothing
rate_expire(s, fail) ==
  LET r == req[s]
      key == RateKey(r.user.userId, r.id)
      ok == isOpen /\ reachable /\ fail # "expire" IN
  /\ At(s, "checkRateLimit", "expire")
  /\ UNCHANGED <<store, Db, reachable, isOpen, isConnected>>
  /\ ttl' = (IF ok /\ key \in DOMAIN ttl THEN Put(ttl, key, RATE_WINDOW) ELSE ttl)
  /\ req' = [req EXCEPT ![s] = Idle]
  /\ last' = RateResult(r.user.userId, r.id, r.loc, fail,
                        IF ok THEN Limit(Allowed(1, r.loc), Max(0, r.loc - 1))
                        ELSE Limit(TRUE, r.loc))

----------------------------------------------------------------------------
(* SpecRateConc: two checkRateLimit calls in flight while time passes, the  *)
(* store reachable; SpecRateConcFault: the same with the expire command     *)
(* allowed to fail and the store going down and up.                         *)

NextRateConc ==
  \/ \E s \in Slots, u \in FaultUsers, e \in Endpoints, n \in 1..MaxN :
       RedisIncr(RateKey(u, e)) <= RateCap /\ rate_incr(s, u, e, n, "none")
  \/ \E s \in Slots : rate_expire(s, "none")
  \/ \E d \in Ticks : Elapse(d)

SpecRateConc == InitReach /\ [][NextRateConc]_vars

NextRateConcFault ==
  \/ \E s \in Slots, u \in FaultUsers, e \in Endpoints, n \in 1..MaxN :
       RedisIncr(RateKey(u, e)) <= RateCap /\ rate_incr(s, u, e, n, "none")
  \/ \E s \in Slots, f \in {"none", "expire"} : rate_expire(s, f)
  \/ \E d \in Ticks : Elapse(d)
  \/ StoreDown
  \/ StoreUp

SpecRateConcFault == InitReach /\ [][NextRateConcFault]_vars

----------------------------------------------------------------------------
(* Properties of concurrent rate limiting *)

\* a checkRateLimit call made its increment and returned in this step
Counted(u, e) ==
  req' = req /\ last'.op = "checkRateLimit" /\ Count(u, e)' = Count(u, e) + 1
Expiring == {s \in Slots : At(s, "checkRateLimit", "expire")}

\* C28: the counter of (u, e) goes up by one with each increment, whichever
\* call makes it, and comes down only by expiring; the call whose increment
\* gave j, the j-th of the window, returns allowed exactly if j <= N: of the
\* calls of one window at most N are allowed.
C28_AtMostNAllowed ==
  [][ \A u \in FaultUsers, e \in Endpoints :
        LET c == Count(u, e) IN
        /\ Count(u, e)' # c =>
             \/ Count(u, e)' = c + 1 /\ (Counted(u, e) \/ Expiring' \ Expiring # {})
             \/ Count(u, e)' = 0 /\ Elapsed
        /\ Counted(u, e) =>
             /\ c >= 1
             /\ last'.out.val.allowed = (c + 1 <= last'.args[3])
        /\ \A s \in Slots :
             /\ s \in Expiring' \ Expiring => (c = 0 /\ Count(u, e)' = 1)
             /\ (s \in Expiring \ Expiring') =>
                  /\ last'.out.val.allowed = (1 <= req[s].loc)
                  /\ last'.args = <<req[s].user.userId, req[s].id, req[s].loc>>
                  /\ Count(u, e)' = c ]_vars

\* with N = 1 the call that opened the window has yet to set the expiry, and
\* the second call of the window has been refused
C28_Witness ==
  /\ Expiring = {1} /\ req[1].loc = 1
  /\ last.op = "checkRateLimit" /\ last.args = <<"u1", "e1", 1>>
  /\ last.out = Ret(Limit(FALSE, 0))
  /\ Count("u1", "e1") = 2 /\ ttl[RateKey("u1", "e1")] = NoExpiry

\* C29: when a checkRateLimit call has returned and none is in flight, a
\* counter that exists has an expiry of at most 60 seconds.
C29_CounterExpires ==
  (Expiring = {} /\ last.op = "checkRateLimit") =>
    \A u \in FaultUsers, e \in Endpoints :
      RateKey(u, e) \in DOMAIN store => ttl[RateKey(u, e)] \in 1..RATE_WINDOW

\* the expire failed, and a later call, with the store reachable and no
\* command failing, is refused on a counter that has no expiry
C29_Witness ==
  /\ Expiring = {} /\ reachable
  /\ last.op = "checkRateLimit" /\ last.fail = "none"
  /\ last.out.val.allowed = FALSE
  /\ ttl[RateKey("u1", "e1")] = NoExpiry /\ Count("u1", "e1") > last.args[3]

----------------------------------------------------------------------------
(* SpecSelf: the admin handlers for every pair of caller and target, the    *)
(* admin's own id among them, beside cached profiles and stored sessions.   *)

SelfUsers == Admins \cup ConcUsers

NextSelf ==
  \/ \E u \in SelfUsers : GetMe_cache(1, u)
  \/ GetMe_findUnique(1)
  \/ GetMe_setCached(1)
  \/ \E u \in SelfUsers, k \in FaultTokenIds : IsIdle(1) /\ storeSession(u, k, "jwtA", "none")
  \/ \E s \in Slots, a \in SelfUsers, id \in SelfUsers, role \in {"undef", "USER", "ADMIN"} :
       PatchUser_findUnique(s, a, id, role, "n2")
  \/ \E s \in Slots : PatchUser_update(s)
  \/ \E s \in Slots : PatchUser_invalidateUser(s)
  \/ \E s \in Slots : PatchUser_revoke(s)
  \/ \E s \in Slots, a \in SelfUsers, id \in SelfUsers : DeleteUser_findUnique(s, a, id)
  \/ \E s \in Slots : DeleteUser_delete(s)
  \/ \E s \in Slots : DeleteUser_invalidateUser(s)
  \/ \E s \in Slots : DeleteUser_revoke(s)

SpecSelf == InitReach /\ [][NextSelf]_vars

----------------------------------------------------------------------------
(* Properties of the admin's requests on their own id *)

\* a PATCH with role USER, or a DELETE, by an admin on their own id
OnSelf(h, a, id, body) ==
  /\ Payload(a).role = "ADMIN" /\ id = a
  /\ \/ h = "PATCH /api/admin/users/[id]" /\ body.role = "USER"
     \/ h = "DELETE /api/admin/users/[id]"

\* C30: a PATCH with role USER and a DELETE that an admin sends for their own
\* id go no further than the handler's first step: they are answered there
\* with 400, and the rows and every key of the store are as before.
C30_SelfRejected ==
  [][ /\ \A s \in Slots :
           (IsIdle(s) /\ ~IsIdle(s)') =>
              ~OnSelf(req'[s].h, req'[s].user.userId, req'[s].id, req'[s].body)
      /\ ( /\ req' = req
           /\ last'.op \in {"PATCH /api/admin/users/[id]", "DELETE /api/admin/users/[id]"}
           /\ OnSelf(last'.op, last'.args[1], last'.args[2], last'.args[3]) ) =>
              /\ last'.out.val.status = 400
              /\ UNCHANGED <<store, ttl, users, tasks, created>> ]_vars

\* the admin, whose profile is cached and who has a session, was refused the
\* deletion of their own account: the row, the profile and the session are there
C30_Witness ==
  /\ last.op = "DELETE /api/admin/users/[id]" /\ last.args[1] = "adm" /\ last.args[2] = "adm"
  /\ last.out.val.status = 400
  /\ "adm" \in DOMAIN users
  /\ UserKey("adm") \in DOMAIN store
  /\ SessionKey("adm", "1") \in DOMAIN store

====
